---- MODULE Spec2Model ----
(***************************************************************************)
(* Interactive poster backend: the poster store (database/crud.py), the    *)
(* request handlers of routers/poster_router.py and the background preview *)
(* job of utils/preview_generator.py.                                      *)
(*                                                                         *)
(* Time.  The code only ever compares timestamps (last_modified against    *)
(* the deck file's mtime, the deck's mtime against the preview image's     *)
(* mtime), so each poster's three timestamps are kept as ranks: a write    *)
(* stamps "now", which is later than every stamp taken before, and the     *)
(* ranks are re-compressed at the end of every step.  The server's local   *)
(* time zone is taken to be UTC, so that the naive comparison of            *)
(* last_modified (UTC) with datetime.fromtimestamp(mtime) (local) compares  *)
(* instants.                                                               *)
(*                                                                         *)
(* Scheduling.  The request handlers are "async def" bodies without an     *)
(* await between their store calls, so each one is one step; a background  *)
(* job runs in the thread pool and is one step per store call / external   *)
(* process call.                                                           *)
(*                                                                         *)
(* Loading.  Two faults stop the code before any of the logic below runs:  *)
(* crud.py names Optional (line 304) without importing it, and             *)
(* crud.create_poster reads poster_data.theme (line 34), a field            *)
(* schemas.PosterCreate does not declare.  The model takes both as          *)
(* repaired: the module loads, and create_poster stores the row with the   *)
(* arguments it is given and the column defaults.                          *)
(***************************************************************************)
EXTENDS Integers, Sequences, FiniteSets, Bags, TLC

\* Identifiers uuid4 can hand out to posters in one run of the model.
PosterIds == {"p1"}

\* Bound: background jobs (queued or running) alive at the same time.
MaxJobs == 2

\* Bound: section ids that can be in use at the same time (between two steps).
MaxSectionIds == 2

\* Bound: image references one section can get by uploads.
MaxImages == 1

\* The values uuid4 hands out for sections and for uploaded files.  A new id
\* differs from every id in use; which unused one it is does not matter, so
\* the first unused one is taken.
SectionIdPool == <<"s1", "s2", "s3", "s4", "s5", "s6">>
ImageNamePool == <<"f1", "f2", "f3", "f4", "f5", "f6">>

NULL == "NULL"

\* Text is a sequence of characters; an absent (None) text is NoText.
NoText == <<NULL>>

\* Column values of DbPoster.preview_status written anywhere in the code.
PENDING == "pending"
GENERATING == "generating"
COMPLETED == "completed"
FAILED == "failed"

\* The file names derived from a poster id.
PptxPath == "temp_posters/<id>.pptx"
PngPath == "temp_previews/<id>.png"

\* The error texts stored in preview_last_error.
ErrRender == "Failed to generate PPTX for preview"
ErrSoffice == "Soffice conversion failed. See logs for details."
ErrUnexpected == "An unexpected error occurred in the background task"

VARIABLES
    rows,     \* ids of the poster rows present in the store
    used,     \* ids handed out so far (a deleted poster's id is never reused)
    db,       \* id -> the DbPoster row (meaningful while id \in rows)
    deck,     \* id -> mtime of temp_posters/<id>.pptx, 0 when the file is absent
    png,      \* id -> mtime of temp_previews/<id>.png, 0 when the file is absent
    uploads,  \* the files under UPLOADED_IMAGES_DIR, as paths relative to it
    jobs,     \* bag of the background tasks that have not ended
    last      \* what the last request observed and answered

vars == <<rows, used, db, deck, png, uploads, jobs, last>>

-----------------------------------------------------------------------------
(***************************************************************************)
(* The store: database/models_db.py and database/crud.py                   *)
(***************************************************************************)

\* Fault variant of NewRow: the preview_status column without its default.
NewRowNoDefault(title, abstract) ==
    [ title |-> title,
      abstract |-> abstract,
      conclusion |-> NoText,
      selected_theme |-> "default",
      style_overrides |-> NULL,
      sections |-> << >>,
      last_modified |-> 1,
      pptx_file_path |-> NULL,
      preview_image_path |-> NULL,
      preview_status |-> NULL,
      preview_last_error |-> NULL ]

\* models_db.DbPoster as create_poster leaves it: the arguments it passes and
\* the column defaults for the rest (preview_status defaults to "completed").
NewRow(title, abstract) ==
    [ title |-> title,
      abstract |-> abstract,
      conclusion |-> NoText,
      selected_theme |-> "default",
      style_overrides |-> NULL,
      sections |-> << >>,
      last_modified |-> 1,
      pptx_file_path |-> NULL,
      preview_image_path |-> NULL,
      preview_status |-> COMPLETED,
      preview_last_error |-> NULL ]

\* The columns of the posters table other than last_modified.  The sections
\* live in their own table: replacing them touches no column of the poster.
Columns ==
    {"title", "abstract", "conclusion", "selected_theme", "style_overrides",
     "pptx_file_path", "preview_image_path", "preview_status",
     "preview_last_error"}

\* Fault variant of Commit: last_modified without its onupdate default.
CommitNoStamp(old, new, now) == new

\* db.commit() on a loaded row: the unit of work emits an UPDATE only when a
\* column attribute has a net change, and only an UPDATE fires the onupdate
\* default of last_modified.
Commit(old, new, now) ==
    IF \E c \in Columns : old[c] # new[c]
    THEN [new EXCEPT !.last_modified = now]
    ELSE new

\* schemas.PosterUpdate: the declared fields.  The model has no
\* preview_image_path field and ignores keyword arguments it does not declare.
PosterUpdateFields ==
    {"title", "abstract", "conclusion", "selected_theme", "style_overrides",
     "preview_status", "preview_last_error", "sections"}

PosterUpdate(kwargs) ==
    [f \in (DOMAIN kwargs) \cap PosterUpdateFields |-> kwargs[f]]

\* Fault variant of update_poster_preview_status: a request that asks for
\* pending marks the poster generating itself.
update_poster_preview_statusEager(row, status, preview_image_path, error_message, now) ==
    LET r1 == [row EXCEPT !.preview_status =
                             IF status = PENDING THEN GENERATING ELSE status]
        r2 == IF status = FAILED
              THEN [r1 EXCEPT !.preview_last_error = error_message]
              ELSE [r1 EXCEPT !.preview_last_error = NULL]
    IN  Commit(row, r2, now)

\* crud.update_poster_preview_status on a row that exists.
update_poster_preview_status(row, status, preview_image_path, error_message, now) ==
    LET r1 == [row EXCEPT !.preview_status = status]
        r2 == IF status = COMPLETED
              THEN [r1 EXCEPT !.preview_image_path =
                                  IF preview_image_path # NULL
                                  THEN preview_image_path ELSE @,
                              !.preview_last_error = NULL]
              ELSE IF status = FAILED
              THEN [r1 EXCEPT !.preview_last_error = error_message]
              ELSE IF status \in {PENDING, GENERATING}
              THEN [r1 EXCEPT !.preview_last_error = NULL]
              ELSE r1
    IN  Commit(row, r2, now)

\* crud.update_poster_filepaths on a row that exists.
update_poster_filepaths(row, pptx_path, preview_path, now) ==
    LET r1 == IF pptx_path # NULL
              THEN [row EXCEPT !.pptx_file_path = pptx_path] ELSE row
        r2 == IF preview_path # NULL
              THEN [r1 EXCEPT !.preview_image_path = preview_path] ELSE r1
    IN  Commit(row, r2, now)

\* One new DbSection per SectionCreate of the payload, in order, each with a
\* fresh section_id (fresh is the sequence of new uuids).
NewSections(value, fresh) ==
    [i \in 1..Len(value) |->
        [ section_id |-> fresh[i],
          section_title |-> value[i].section_title,
          section_content |-> value[i].section_content,
          image_urls |-> value[i].image_urls ]]

\* Fault variant of SetField: an empty text is taken as "not given".
SetFieldIfTruthy(row, field, value, fresh) ==
    IF field = "sections"
    THEN [row EXCEPT !.sections = NewSections(value, fresh)]
    ELSE IF field = "selected_theme" /\ value = NULL
    THEN [row EXCEPT !.selected_theme = "default"]
    ELSE IF field \in {"title", "abstract", "conclusion"} /\ value = << >>
    THEN row
    ELSE [row EXCEPT ![field] = value]

\* crud.update_poster_data on a row that exists: the value each field named in
\* poster_update.__fields_set__ has after the three passes over the payload.
SetField(row, field, value, fresh) ==
    IF field = "sections"
    THEN [row EXCEPT !.sections = NewSections(value, fresh)]
    ELSE IF field = "selected_theme" /\ value = NULL
    THEN [row EXCEPT !.selected_theme = "default"]
    ELSE [row EXCEPT ![field] = value]

RECURSIVE SetFields(_, _, _, _)
SetFields(row, upd, fields, fresh) ==
    IF fields = {} THEN row
    ELSE LET f == CHOOSE x \in fields : TRUE
         IN  SetFields(SetField(row, f, upd[f], fresh), upd, fields \ {f}, fresh)

update_poster_dataOneField(row, poster_update, fresh, now) ==
    Commit(row, SetFields(row, poster_update,
                          {CHOOSE f \in DOMAIN poster_update : TRUE}, fresh), now)

update_poster_data(row, poster_update, fresh, now) ==
    Commit(row, SetFields(row, poster_update, DOMAIN poster_update, fresh), now)

\* update_poster_data stamps last_modified: the commit emitted an UPDATE of
\* the poster's row.
Stamped(row, poster_update, fresh) ==
    update_poster_data(row, poster_update, fresh, row.last_modified + 1).last_modified
        # row.last_modified

\* The section ids update_poster_data consumes for a payload.
IdsNeeded(poster_update) ==
    IF "sections" \in DOMAIN poster_update THEN Len(poster_update.sections) ELSE 0

\* Path prefix test on segment sequences.
IsPrefix(pre, path) ==
    Len(pre) <= Len(path) /\ \A i \in 1..Len(pre) : path[i] = pre[i]

\* shutil.rmtree(UPLOADED_IMAGES_DIR / dir).
rmtreeNothing(files, dir) == files
rmtree(files, dir) == {f \in files : ~IsPrefix(dir, f)}

\* crud._delete_uploaded_image_file: an empty reference, a URL, a reference
\* with a ".." segment or one resolving outside the upload root (an absolute
\* path) is skipped; otherwise UPLOADED_IMAGES_DIR / relative_path is unlinked
\* if it is a file.
IsUrl(ref) == Len(ref) > 0 /\ ref[1] \in {"http:", "https:"}
HasDotDot(ref) == \E i \in 1..Len(ref) : ref[i] = ".."
IsAbsolute(ref) == Len(ref) > 0 /\ ref[1] = "/"

_delete_uploaded_image_file(files, relative_path) ==
    IF relative_path = << >> \/ IsUrl(relative_path) THEN files
    ELSE IF HasDotDot(relative_path) THEN files
    ELSE IF IsAbsolute(relative_path) THEN files
    ELSE files \ {relative_path}

RECURSIVE DeleteImages(_, _)
DeleteImages(files, image_urls) ==
    IF image_urls = << >> THEN files
    ELSE DeleteImages(_delete_uploaded_image_file(files, Head(image_urls)),
                      Tail(image_urls))

\* update_poster_data lines 103-114 and delete_poster lines 255-273: for each
\* old section, its image references are deleted and then its directory
\* poster_<id>/section_<id> is removed.
RECURSIVE DeleteSectionFiles(_, _, _)
DeleteSectionFiles(files, p, sections) ==
    IF sections = << >> THEN files
    ELSE LET sec == Head(sections)
         IN  DeleteSectionFiles(
                 rmtree(DeleteImages(files, sec.image_urls), <<p, sec.section_id>>),
                 p, Tail(sections))

\* The same when shutil.rmtree raises (lines 110-114 log the error and go
\* on): only the image references are deleted.
RECURSIVE DeleteSectionImages(_, _)
DeleteSectionImages(files, sections) ==
    IF sections = << >> THEN files
    ELSE DeleteSectionImages(DeleteImages(files, Head(sections).image_urls),
                             Tail(sections))

\* The files left by update_poster_data.
update_poster_data_files(files, p, row, poster_update) ==
    IF "sections" \in DOMAIN poster_update
    THEN DeleteSectionFiles(files, p, row.sections)
    ELSE files

-----------------------------------------------------------------------------
(***************************************************************************)
(* Clock                                                                   *)
(***************************************************************************)

Max(S) == CHOOSE x \in S : \A y \in S : y <= x

\* A stamp later than every stamp of poster p; Now(p) + 1 is the next one.
Now(p) == Max({db[p].last_modified, deck[p], png[p]}) + 1

\* The rank of stamp v among the stamps S in use (0 stays "no file").
Rank(v, S) == IF v = 0 THEN 0 ELSE Cardinality({x \in S \ {0} : x <= v})

-----------------------------------------------------------------------------
(***************************************************************************)
(* uuid4                                                                   *)
(***************************************************************************)

SectionIds == {SectionIdPool[k] : k \in 1..MaxSectionIds}

\* The section ids in use: those of the stored sections and those that name
\* a directory of uploaded files (UPLOADED_IMAGES_DIR/poster_p/section_s).
SectionIdsInUse ==
    {f[2] : f \in uploads}
    \cup UNION {{db[p].sections[i].section_id : i \in 1..Len(db[p].sections)} :
                  p \in rows}

\* The file names in use: those of the uploaded files and those the stored
\* image references end in.
ImageNamesInUse ==
    {f[Len(f)] : f \in uploads}
    \cup UNION {UNION {{db[p].sections[i].image_urls[k][Len(db[p].sections[i].image_urls[k])] :
                          k \in 1..Len(db[p].sections[i].image_urls)} :
                       i \in 1..Len(db[p].sections)} : p \in rows}

\* The first n values of the pool, from position k on, that are not taken.
RECURSIVE FirstUnused(_, _, _, _)
FirstUnused(pool, taken, k, n) ==
    IF n = 0 \/ k > Len(pool) THEN << >>
    ELSE IF pool[k] \in taken THEN FirstUnused(pool, taken, k + 1, n)
    ELSE <<pool[k]>> \o FirstUnused(pool, taken, k + 1, n - 1)

\* A replacement of the section list draws the ids of the new sections while
\* those of the old ones are still in use: twice the bound is what it takes.
FreshSectionIdsReused(n) == SubSeq(SectionIdPool, 1, n)
FreshSectionIds(n) ==
    FirstUnused(SubSeq(SectionIdPool, 1, 2 * MaxSectionIds), SectionIdsInUse, 1, n)

FreshImageName == FirstUnused(ImageNamePool, ImageNamesInUse, 1, 1)[1]

-----------------------------------------------------------------------------
(***************************************************************************)
(* Background tasks and the record of the last step                        *)
(***************************************************************************)

\* background_tasks.add_task(background_convert_and_update_status, poster_id,
\* pptx path, previews dir): the task runs after the response has been sent,
\* in the thread pool.  Tasks carry no identity and no order: jobs is the bag
\* of the tasks that have not ended.
QueuedJob(p) ==
    [ pc |-> "queued", poster_id |-> p, png_path |-> NULL,
      wrote_generating |-> FALSE ]

InFlight == BagCardinality(jobs)

add_task(p) == jobs (+) SetToBag({QueuedJob(p)})

\* Job j moves on as record k (or ends).
Advance(j, k) == (jobs (-) SetToBag({j})) (+) SetToBag({k})
Finish(j) == jobs (-) SetToBag({j})

\* What a step observed and answered: the response of a request handler, or
\* the store call of a job step.  The pre_ fields are the state the step
\* started in; the job_ fields are set by the step that ends a job.
Step(op, p, resp, enqueued, regenerated, png_path) ==
    [ op |-> op, poster_id |-> p, resp |-> resp, enqueued |-> enqueued,
      deck_regenerated |-> regenerated, png_path |-> png_path,
      pre_status |-> IF p \in rows THEN db[p].preview_status ELSE NULL,
      pre_deck_stale |-> p \in rows /\
                         (db[p].pptx_file_path = NULL \/ deck[p] = 0
                          \/ db[p].last_modified > deck[p]),
      pre_image_fresh |-> p \in DOMAIN deck /\ deck[p] # 0 /\ png[p] > deck[p],
      job_wrote_generating |-> FALSE,
      job_wrote_terminal |-> FALSE,
      job_write_failed |-> FALSE,
      render_failed |-> FALSE,
      summary |-> << >>, llm_calls |-> 0, llm_context |-> << >>,
      staged |-> {}, store_calls |-> 0, content_changed |-> FALSE,
      modified |-> FALSE, request |-> NULL,
      llm_reply |-> [kind |-> "none", text |-> << >>] ]

\* The stamps of poster p after a step, as ranks.
Settle(p, row, dk, pg) ==
    LET S == {row.last_modified, dk, pg}
    IN  /\ db' = [db EXCEPT ![p] = [row EXCEPT !.last_modified = Rank(@, S)]]
        /\ deck' = [deck EXCEPT ![p] = Rank(dk, S)]
        /\ png' = [png EXCEPT ![p] = Rank(pg, S)]

-----------------------------------------------------------------------------
(***************************************************************************)
(* Request handlers: routers/poster_router.py                              *)
(***************************************************************************)

\* POST /posters: the topic is given or not.
create_poster_session(p, topic) ==
    /\ p \notin used
    /\ rows' = rows \cup {p}
    /\ used' = used \cup {p}
    /\ db' = [db EXCEPT ![p] =
                 IF topic = NULL
                 THEN NewRow(<<"U">>, <<"i">>)
                 ELSE NewRow(<<"N", "t">>, <<"A", "t">>)]
    /\ last' = Step("create", p, "201", 0, FALSE, NULL)
    /\ UNCHANGED <<deck, png, uploads, jobs>>

\* str.strip() on a text: leading and trailing whitespace removed.
RECURSIVE LStrip(_)
LStrip(t) == IF t # << >> /\ Head(t) = " " THEN LStrip(Tail(t)) ELSE t

Reverse(t) == [i \in 1..Len(t) |-> t[Len(t) + 1 - i]]

\* Fault variant of Strip: only the leading whitespace is removed.
StripLeading(t) == LStrip(t)

Strip(t) == Reverse(LStrip(Reverse(LStrip(t))))

\* Fault variant of StartsWithSection: no target is taken for a section's.
StartsWithSectionNever(target) == FALSE

\* target_element_id is kept as its '_'-separated parts (<< >> when it is
\* absent or empty): startswith("section_").
StartsWithSection(target) == Len(target) >= 2 /\ target[1] = "section"

\* Python truthiness of an Optional[str].
Truthy(text) == text # NoText /\ text # << >>

EmptyPayload == [f \in {} |-> NULL]

\* schemas.SectionCreate(**section.dict()): the section without its id.
SectionCreate(sec) ==
    [ section_title |-> sec.section_title,
      section_content |-> sec.section_content,
      image_urls |-> sec.image_urls ]

\* What a poster shows: its text, theme and styles and its sections without
\* their ids (schemas.Poster less the ids, paths and status fields).
Content(row) ==
    [ title |-> row.title, abstract |-> row.abstract,
      conclusion |-> row.conclusion, selected_theme |-> row.selected_theme,
      style_overrides |-> row.style_overrides,
      sections |-> [i \in 1..Len(row.sections) |-> SectionCreate(row.sections[i])] ]

\* Index of the first section with the given id, 0 when there is none.
FindSection(sections, sec_id) ==
    IF \E i \in 1..Len(sections) : sections[i].section_id = sec_id
    THEN CHOOSE i \in 1..Len(sections) :
             /\ sections[i].section_id = sec_id
             /\ \A k \in 1..(i - 1) : sections[k].section_id # sec_id
    ELSE 0

\* handle_llm_prompt lines 100-120: which contextual prompt is built for a
\* non-direct request, or which error fragment is added instead.
PromptKind(cur, target) ==
    IF target = <<"poster", "title">> THEN "title"
    ELSE IF target = <<"poster", "abstract">> THEN "abstract"
    ELSE IF target = <<"poster", "conclusion">> THEN "conclusion"
    ELSE IF StartsWithSection(target)
         THEN IF Len(target) = 3
              THEN IF FindSection(cur.sections, target[2]) # 0
                   THEN "section" ELSE "error_section_not_found"
              ELSE "error_malformed_section_target"
    ELSE IF target = << >> THEN "general"
    ELSE "error_unknown_target"

\* The current value the contextual prompt quotes.
PromptCurrent(cur, target, kind) ==
    IF kind = "title" THEN cur.title
    ELSE IF kind = "abstract" THEN cur.abstract
    ELSE IF kind = "conclusion" THEN cur.conclusion
    ELSE IF kind = "section"
         THEN LET sec == cur.sections[FindSection(cur.sections, target[2])]
              IN  IF target[3] = "title" THEN sec.section_title
                  ELSE sec.section_content
    ELSE cur.title

\* handle_llm_prompt lines 139-150: the copy of the section list with the
\* targeted field of the matching section replaced.
MergeSection(cur, target, content) ==
    LET i == FindSection(cur.sections, target[2])
    IN  [k \in 1..Len(cur.sections) |->
            IF k # i THEN SectionCreate(cur.sections[k])
            ELSE IF target[3] = "title"
                 THEN [SectionCreate(cur.sections[k]) EXCEPT !.section_title = content]
            ELSE IF target[3] = "content"
                 THEN [SectionCreate(cur.sections[k]) EXCEPT !.section_content = content]
            ELSE SectionCreate(cur.sections[k])]

\* A request is the JSON body of the call.  Its style_overrides is NULL when
\* the body has no such key, JsonNull when the body gives null, or the value.
\* schemas.OriginalLLMPromptRequest(**body).style_overrides is None in the
\* first two cases alike.
JsonNull == "null"

ParsedStyle(request) ==
    IF request.style_overrides = JsonNull THEN NULL ELSE request.style_overrides

\* Fault variant of GotContent: whatever agent.step did counts as content.
GotContentAlways(llm) == TRUE

\* handle_llm_prompt line 126 (process_poster_update line 91): agent.step
\* returned, and with a message of non-empty content.
GotContent(llm) == llm.kind = "content" /\ llm.text # << >>

\* Fault variant of DirectSectionsGiven: a section list counts in any mode.
DirectSectionsGivenAnyMode(request) == request.sections # << >>

\* handle_llm_prompt line 86 (process_poster_update line 70): the request's
\* section list is used.  request.sections is << >> when there is no list,
\* else <<the list>>.
DirectSectionsGiven(request) ==
    request.is_direct_update /\ request.sections # << >>

\* handle_llm_prompt lines 70-155: the staged payload, the summary (as its
\* fragments, in order) and the use made of the LLM.  llm is what agent.step
\* would do if called: [kind |-> "content" | "terminated" | "empty" | "raise",
\* text |-> the raw content].
Reconcile(row, request, llm) ==
    LET target == request.target_element_id
        \* lines 76-79
        theme == request.selected_theme # NULL
                 /\ row.selected_theme # request.selected_theme
        \* lines 81-84
        style == ParsedStyle(request) # NULL
        cur == [row EXCEPT
                   !.selected_theme = IF theme THEN request.selected_theme ELSE @,
                   !.style_overrides = IF style THEN ParsedStyle(request) ELSE @]
        \* lines 86-90
        direct_sections == DirectSectionsGiven(request)
        pay3 == (IF theme THEN "selected_theme" :> request.selected_theme
                 ELSE EmptyPayload)
                @@ (IF style THEN "style_overrides" :> ParsedStyle(request)
                    ELSE EmptyPayload)
                @@ (IF direct_sections THEN "sections" :> request.sections[1]
                    ELSE EmptyPayload)
        msg3 == (IF theme THEN <<"theme_updated">> ELSE << >>)
                \o (IF style THEN <<"style_overrides_applied">> ELSE << >>)
                \o (IF direct_sections THEN <<"sections_updated_directly">> ELSE << >>)
        \* line 92
        prompt == request.prompt_text # NoText /\ ~direct_sections
        \* lines 93-98
        direct_error == prompt /\ request.is_direct_update
                        /\ (target = << >> \/ StartsWithSection(target))
        direct_ok == prompt /\ request.is_direct_update /\ ~direct_error
        \* lines 99-132
        kind == IF prompt /\ ~request.is_direct_update
                THEN PromptKind(cur, target) ELSE "none"
        \* line 122: a prompt was built (the fragments added before it name no
        \* "Error:" together with "not found")
        call == kind \in {"title", "abstract", "conclusion", "section", "general"}
        got == call /\ GotContent(llm)
        content == IF direct_ok THEN request.prompt_text
                   ELSE IF got THEN Strip(llm.text)
                   ELSE NoText
        msg4 == msg3
                \o (IF direct_error THEN <<"error_direct_needs_non_section_target">>
                    ELSE << >>)
                \o (IF direct_ok THEN <<"directly_updated">> ELSE << >>)
                \o (IF kind \in {"error_section_not_found",
                                 "error_malformed_section_target",
                                 "error_unknown_target"}
                    THEN <<kind>> ELSE << >>)
                \o (IF ~call THEN << >>
                    ELSE IF got THEN <<"llm_response">>
                    ELSE IF llm.kind = "raise" THEN <<"llm_service_error">>
                    ELSE IF llm.kind = "terminated" THEN <<"llm_call_issue">>
                    ELSE <<"llm_no_content">>)
        \* lines 134-150
        stage == prompt /\ content # NoText /\ target # << >>
        field == IF ~stage THEN "none"
                 ELSE IF target = <<"poster", "title">> THEN "title"
                 ELSE IF target = <<"poster", "abstract">> THEN "abstract"
                 ELSE IF target = <<"poster", "conclusion">> THEN "conclusion"
                 ELSE IF /\ StartsWithSection(target)
                         /\ "sections" \notin DOMAIN pay3
                         /\ Len(target) = 3
                         /\ FindSection(cur.sections, target[2]) # 0
                      THEN "sections"
                 ELSE "none"
        pay5 == IF field = "none" THEN pay3
                ELSE IF field = "sections"
                     THEN ("sections" :> MergeSection(cur, target, content)) @@ pay3
                ELSE (field :> content) @@ pay3
        \* lines 152-155
        msg6 == IF DOMAIN pay5 = {} /\ ~Truthy(request.prompt_text)
                THEN (IF msg4 = << >> THEN <<"no_update_action_performed">> ELSE msg4)
                ELSE IF msg4 = << >> /\ DOMAIN pay5 # {}
                     THEN <<"poster_attributes_updated">>
                ELSE msg4
    IN  [ payload |-> pay5,
          summary |-> msg6,
          llm_calls |-> IF call THEN 1 ELSE 0,
          llm_context |-> IF call
                          THEN <<PromptCurrent(cur, target, kind), request.prompt_text>>
                          ELSE << >> ]

\* Fault variant of handle_llm_prompt: the poster is looked up after the
\* prompt has been sent to the LLM.
handle_llm_promptLateLookup(p, request, llm, store_ok) ==
    IF p \notin rows
    THEN /\ last' = [Step("prompt", p, "404", 0, FALSE, NULL)
                       EXCEPT !.llm_calls = 1]
         /\ UNCHANGED <<rows, used, db, deck, png, uploads, jobs>>
    ELSE
    LET r == Reconcile(db[p], request, llm)
        upd == PosterUpdate(r.payload)
    IN  IF DOMAIN r.payload = {}
        THEN /\ last' = [Step("prompt", p, "200", 0, FALSE, NULL)
                           EXCEPT !.summary = r.summary,
                                  !.llm_calls = r.llm_calls,
                                  !.llm_context = r.llm_context,
                                  !.llm_reply = IF r.llm_calls = 1 THEN llm ELSE @,
                                  !.request = request]
             /\ UNCHANGED <<rows, used, db, deck, png, uploads, jobs>>
        ELSE
        /\ Len(FreshSectionIds(IdsNeeded(upd))) = IdsNeeded(upd)
        /\ uploads' = update_poster_data_files(uploads, p, db[p], upd)
        /\ IF store_ok
           THEN Settle(p, update_poster_data(db[p], upd, FreshSectionIds(IdsNeeded(upd)),
                                            Now(p)),
                       deck[p], png[p])
           ELSE UNCHANGED <<db, deck, png>>
        /\ last' = [Step("prompt", p, IF store_ok THEN "200" ELSE "500", 0, FALSE, NULL)
                      EXCEPT !.summary = r.summary,
                             !.llm_calls = r.llm_calls,
                             !.llm_context = r.llm_context,
                             !.llm_reply = IF r.llm_calls = 1 THEN llm ELSE @,
                             !.staged = DOMAIN r.payload,
                             !.store_calls = 1,
                             !.content_changed =
                                 store_ok /\ Content(db'[p]) # Content(db[p]),
                             !.modified =
                                 store_ok /\ Stamped(db[p], upd, FreshSectionIds(IdsNeeded(upd))),
                             !.request = request]
        /\ UNCHANGED <<rows, used, jobs>>

\* POST /posters/{poster_id}/prompt.  store_ok: crud.update_poster_data
\* commits (TRUE) or raises (FALSE) if it is called.
handle_llm_prompt(p, request, llm, store_ok) ==
    IF p \notin rows
    THEN /\ last' = Step("prompt", p, "404", 0, FALSE, NULL)
         /\ UNCHANGED <<rows, used, db, deck, png, uploads, jobs>>
    ELSE
    LET r == Reconcile(db[p], request, llm)
        upd == PosterUpdate(r.payload)
    IN  IF DOMAIN r.payload = {}
        THEN /\ last' = [Step("prompt", p, "200", 0, FALSE, NULL)
                           EXCEPT !.summary = r.summary,
                                  !.llm_calls = r.llm_calls,
                                  !.llm_context = r.llm_context,
                                  !.llm_reply = IF r.llm_calls = 1 THEN llm ELSE @,
                                  !.request = request]
             /\ UNCHANGED <<rows, used, db, deck, png, uploads, jobs>>
        ELSE
        /\ Len(FreshSectionIds(IdsNeeded(upd))) = IdsNeeded(upd)
        /\ uploads' = update_poster_data_files(uploads, p, db[p], upd)
        /\ IF store_ok
           THEN Settle(p, update_poster_data(db[p], upd, FreshSectionIds(IdsNeeded(upd)),
                                            Now(p)),
                       deck[p], png[p])
           ELSE UNCHANGED <<db, deck, png>>
        /\ last' = [Step("prompt", p, IF store_ok THEN "200" ELSE "500", 0, FALSE, NULL)
                      EXCEPT !.summary = r.summary,
                             !.llm_calls = r.llm_calls,
                             !.llm_context = r.llm_context,
                             !.llm_reply = IF r.llm_calls = 1 THEN llm ELSE @,
                             !.staged = DOMAIN r.payload,
                             !.store_calls = 1,
                             !.content_changed =
                                 store_ok /\ Content(db'[p]) # Content(db[p]),
                             !.modified =
                                 store_ok /\ Stamped(db[p], upd, FreshSectionIds(IdsNeeded(upd))),
                             !.request = request]
        /\ UNCHANGED <<rows, used, jobs>>

\* enums.PosterElement: the two section element names.
SECTION_TITLE == "section_title"
SECTION_CONTENT == "section_content"

\* poster_service._build_llm_contextual_prompt: which contextual prompt is
\* built, "" (no prompt) when none is.  The third part of a section target is
\* compared with the element names "section_title" / "section_content".
ServicePromptKind(cur, target) ==
    IF target = <<"poster", "title">> THEN "title"
    ELSE IF target = <<"poster", "abstract">> THEN "abstract"
    ELSE IF target = <<"poster", "conclusion">> THEN "conclusion"
    ELSE IF /\ StartsWithSection(target)
            /\ Len(target) = 3
            /\ FindSection(cur.sections, target[2]) # 0
            /\ target[3] \in {SECTION_TITLE, SECTION_CONTENT}
         THEN "section"
    ELSE IF target = << >> THEN "general"
    ELSE ""

\* poster_service.process_poster_update lines 52-114 with
\* _apply_llm_update_to_payload: the staged payload, the summary and the use
\* made of the LLM, as Reconcile gives them for the route.
ServiceReconcile(row, request, llm) ==
    LET target == request.target_element_id
        \* lines 59-62
        theme == request.selected_theme # NULL
                 /\ row.selected_theme # request.selected_theme
        \* lines 64-67
        style == ParsedStyle(request) # NULL
        cur == [row EXCEPT
                   !.selected_theme = IF theme THEN request.selected_theme ELSE @,
                   !.style_overrides = IF style THEN ParsedStyle(request) ELSE @]
        \* lines 70-73
        direct_sections == DirectSectionsGiven(request)
        pay3 == (IF theme THEN "selected_theme" :> request.selected_theme
                 ELSE EmptyPayload)
                @@ (IF style THEN "style_overrides" :> ParsedStyle(request)
                    ELSE EmptyPayload)
                @@ (IF direct_sections THEN "sections" :> request.sections[1]
                    ELSE EmptyPayload)
        msg3 == (IF theme THEN <<"theme_updated">> ELSE << >>)
                \o (IF style THEN <<"style_overrides_applied">> ELSE << >>)
                \o (IF direct_sections THEN <<"sections_updated_directly">> ELSE << >>)
        \* line 76
        prompt == request.prompt_text # NoText /\ ~direct_sections
        \* lines 77-82
        direct_error == prompt /\ request.is_direct_update
                        /\ (target = << >> \/ StartsWithSection(target))
        direct_ok == prompt /\ request.is_direct_update /\ ~direct_error
        \* lines 83-99
        kind == IF prompt /\ ~request.is_direct_update
                THEN ServicePromptKind(cur, target) ELSE "none"
        call == kind \in {"title", "abstract", "conclusion", "section", "general"}
        got == call /\ GotContent(llm)
        content == IF direct_ok THEN request.prompt_text
                   ELSE IF got THEN Strip(llm.text)
                   ELSE NoText
        msg4 == msg3
                \o (IF direct_error THEN <<"error_direct_needs_non_section_target">>
                    ELSE << >>)
                \o (IF direct_ok THEN <<"directly_updated">> ELSE << >>)
                \o (IF kind = "" THEN <<"error_could_not_process">> ELSE << >>)
                \o (IF ~call THEN << >>
                    ELSE IF got THEN <<"llm_response">>
                    ELSE IF llm.kind = "raise" THEN <<"llm_service_error">>
                    ELSE <<"llm_no_content">>)
        \* lines 101-107 and 161-189
        stage == prompt /\ content # NoText /\ target # << >>
        field == IF ~stage THEN "none"
                 ELSE IF target = <<"poster", "title">> THEN "title"
                 ELSE IF target = <<"poster", "abstract">> THEN "abstract"
                 ELSE IF target = <<"poster", "conclusion">> THEN "conclusion"
                 ELSE IF /\ StartsWithSection(target)
                         /\ "sections" \notin DOMAIN pay3
                         /\ Len(target) = 3
                         /\ FindSection(cur.sections, target[2]) # 0
                      THEN "sections"
                 ELSE "none"
        pay5 == IF field = "none" THEN pay3
                ELSE IF field = "sections"
                     THEN ("sections" :> MergeSection(cur, target, content)) @@ pay3
                ELSE (field :> content) @@ pay3
        \* lines 110-114
        msg6 == IF DOMAIN pay5 = {} /\ ~Truthy(request.prompt_text)
                THEN (IF msg4 = << >> THEN <<"no_update_action_performed">> ELSE msg4)
                ELSE IF msg4 = << >> /\ DOMAIN pay5 # {}
                     THEN <<"poster_attributes_updated">>
                ELSE msg4
    IN  [ payload |-> pay5,
          summary |-> msg6,
          llm_calls |-> IF call THEN 1 ELSE 0,
          llm_context |-> IF call
                          THEN <<PromptCurrent(cur, target, kind), request.prompt_text>>
                          ELSE << >> ]

\* The outcome of process_poster_update for a poster that is not in the store,
\* and for a store update that raises.
ValueErrorNotFound == "ValueError: Poster not found"
Raised == "raised"

\* poster_service.process_poster_update (the tests call it; no route does).
\* store_ok: crud.update_poster_data commits (TRUE) or raises (FALSE) if it is
\* called.  Lines 117-124 delete the files of the old sections before the
\* store does the same.
process_poster_update(p, request, llm, store_ok) ==
    IF p \notin rows
    THEN /\ last' = Step("service", p, ValueErrorNotFound, 0, FALSE, NULL)
         /\ UNCHANGED <<rows, used, db, deck, png, uploads, jobs>>
    ELSE
    LET r == ServiceReconcile(db[p], request, llm)
        upd == PosterUpdate(r.payload)
    IN  IF DOMAIN r.payload = {}
        THEN /\ last' = [Step("service", p, "returned", 0, FALSE, NULL)
                           EXCEPT !.summary = r.summary,
                                  !.llm_calls = r.llm_calls,
                                  !.llm_context = r.llm_context,
                                  !.llm_reply = IF r.llm_calls = 1 THEN llm ELSE @,
                                  !.request = request]
             /\ UNCHANGED <<rows, used, db, deck, png, uploads, jobs>>
        ELSE
        /\ Len(FreshSectionIds(IdsNeeded(upd))) = IdsNeeded(upd)
        /\ uploads' = update_poster_data_files(
                          update_poster_data_files(uploads, p, db[p], upd),
                          p, db[p], upd)
        /\ IF store_ok
           THEN Settle(p, update_poster_data(db[p], upd, FreshSectionIds(IdsNeeded(upd)),
                                            Now(p)),
                       deck[p], png[p])
           ELSE UNCHANGED <<db, deck, png>>
        /\ last' = [Step("service", p, IF store_ok THEN "returned" ELSE Raised,
                         0, FALSE, NULL)
                      EXCEPT !.summary = r.summary,
                             !.llm_calls = r.llm_calls,
                             !.llm_context = r.llm_context,
                             !.llm_reply = IF r.llm_calls = 1 THEN llm ELSE @,
                             !.staged = DOMAIN r.payload,
                             !.store_calls = 1,
                             !.content_changed =
                                 store_ok /\ Content(db'[p]) # Content(db[p]),
                             !.modified =
                                 store_ok /\ Stamped(db[p], upd, FreshSectionIds(IdsNeeded(upd))),
                             !.request = request]
        /\ UNCHANGED <<rows, used, jobs>>

\* Fault variant of DeckNeedsGeneration: only a missing deck is generated.
DeckMissing(row, dk) ==
    \/ row.pptx_file_path = NULL
    \/ dk = 0

\* get_poster_preview, lines 186-187: the deck has to be (re)generated.
DeckNeedsGeneration(row, dk) ==
    \/ row.pptx_file_path = NULL
    \/ dk = 0
    \/ row.last_modified > dk

\* Fault variant of NeedsPreviewRegeneration: a failed preview is not retried.
NeedsPreviewRegenerationNoRetry(row, dk, pg) ==
    IF row.preview_status = FAILED THEN FALSE
    ELSE IF \/ row.preview_status # COMPLETED
            \/ row.preview_image_path = NULL
            \/ pg = 0
         THEN TRUE
    ELSE dk > pg \/ row.last_modified > pg

\* get_poster_preview, lines 203-214.
NeedsPreviewRegeneration(row, dk, pg) ==
    IF row.preview_status = FAILED THEN TRUE
    ELSE IF \/ row.preview_status # COMPLETED
            \/ row.preview_image_path = NULL
            \/ pg = 0
         THEN TRUE
    ELSE dk > pg \/ row.last_modified > pg

\* Fault variant of PreviewBranch: line 216 without its test of "generating".
PreviewBranchAnyStatus(row, dk, pg) ==
    IF NeedsPreviewRegeneration(row, dk, pg)
    THEN "enqueue"
    ELSE IF row.preview_status \in {GENERATING, PENDING} THEN "in_progress"
    ELSE IF row.preview_status = COMPLETED /\ row.preview_image_path # NULL /\ pg # 0
    THEN "file"
    ELSE IF row.preview_status = FAILED THEN "failed"
    ELSE "inconsistent"

\* get_poster_preview, lines 216-233, on the row as the deck step left it:
\* which branch answers.
PreviewBranch(row, dk, pg) ==
    IF NeedsPreviewRegeneration(row, dk, pg) /\ row.preview_status # GENERATING
    THEN "enqueue"
    ELSE IF row.preview_status \in {GENERATING, PENDING} THEN "in_progress"
    ELSE IF row.preview_status = COMPLETED /\ row.preview_image_path # NULL /\ pg # 0
    THEN "file"
    ELSE IF row.preview_status = FAILED THEN "failed"
    ELSE "inconsistent"

\* Fault variant of get_poster_preview: a failed rendering is answered with
\* the error and not recorded on the poster.
get_poster_previewNoRecord(p, render_ok) ==
    IF p \notin rows
    THEN /\ last' = Step("preview", p, "404", 0, FALSE, NULL)
         /\ UNCHANGED <<rows, used, db, deck, png, uploads, jobs>>
    ELSE
    LET row == db[p]
        t == Now(p)
        regen == DeckNeedsGeneration(row, deck[p])
    IN  IF regen /\ ~render_ok
        THEN \* lines 196-199
             /\ UNCHANGED <<db, deck, png>>
             /\ last' = [Step("preview", p, "500", 0, FALSE, NULL)
                           EXCEPT !.render_failed = TRUE]
             /\ UNCHANGED <<rows, used, uploads, jobs>>
        ELSE
        LET dk1 == IF regen THEN t ELSE deck[p]
            row1 == IF regen
                    THEN update_poster_filepaths(row, PptxPath, row.preview_image_path, t + 1)
                    ELSE row
            branch == PreviewBranch(row1, dk1, png[p])
        IN  IF branch = "enqueue"
            THEN /\ InFlight < MaxJobs
                 /\ Settle(p, update_poster_preview_status(row1, PENDING, NULL, NULL, t + 2),
                           dk1, png[p])
                 /\ jobs' = add_task(p)
                 /\ last' = Step("preview", p, "202", 1, regen, NULL)
                 /\ UNCHANGED <<rows, used, uploads>>
            ELSE /\ Settle(p, row1, dk1, png[p])
                 /\ last' = Step("preview", p,
                                 CASE branch = "in_progress" -> "202"
                                   [] branch = "file" -> "file"
                                   [] branch = "failed" -> "500 failed previously"
                                   [] OTHER -> "202 inconsistent",
                                 0, regen, NULL)
                 /\ UNCHANGED <<rows, used, uploads, jobs>>

\* GET /posters/{poster_id}/preview.  render_ok: generate_pptx_from_data
\* returns (TRUE) or raises (FALSE) if it is called.
get_poster_preview(p, render_ok) ==
    IF p \notin rows
    THEN /\ last' = Step("preview", p, "404", 0, FALSE, NULL)
         /\ UNCHANGED <<rows, used, db, deck, png, uploads, jobs>>
    ELSE
    LET row == db[p]
        t == Now(p)
        regen == DeckNeedsGeneration(row, deck[p])
    IN  IF regen /\ ~render_ok
        THEN \* lines 196-199
             /\ Settle(p, update_poster_preview_status(row, FAILED, NULL, ErrRender, t),
                       deck[p], png[p])
             /\ last' = [Step("preview", p, "500", 0, FALSE, NULL)
                           EXCEPT !.render_failed = TRUE]
             /\ UNCHANGED <<rows, used, uploads, jobs>>
        ELSE
        LET dk1 == IF regen THEN t ELSE deck[p]
            row1 == IF regen
                    THEN update_poster_filepaths(row, PptxPath, row.preview_image_path, t + 1)
                    ELSE row
            branch == PreviewBranch(row1, dk1, png[p])
        IN  IF branch = "enqueue"
            THEN /\ InFlight < MaxJobs
                 /\ Settle(p, update_poster_preview_status(row1, PENDING, NULL, NULL, t + 2),
                           dk1, png[p])
                 /\ jobs' = add_task(p)
                 /\ last' = Step("preview", p, "202", 1, regen, NULL)
                 /\ UNCHANGED <<rows, used, uploads>>
            ELSE /\ Settle(p, row1, dk1, png[p])
                 /\ last' = Step("preview", p,
                                 CASE branch = "in_progress" -> "202"
                                   [] branch = "file" -> "file"
                                   [] branch = "failed" -> "500 failed previously"
                                   [] OTHER -> "202 inconsistent",
                                 0, regen, NULL)
                 /\ UNCHANGED <<rows, used, uploads, jobs>>

\* Fault variant of trigger_pptx_generation: the deck is rendered only when it
\* is missing or older than last_modified.
trigger_pptx_generationIfStale(p, render_ok) ==
    IF p \notin rows
    THEN /\ last' = Step("trigger", p, "404", 0, FALSE, NULL)
         /\ UNCHANGED <<rows, used, db, deck, png, uploads, jobs>>
    ELSE IF ~render_ok
    THEN /\ last' = [Step("trigger", p, "500", 0, FALSE, NULL)
                       EXCEPT !.render_failed = TRUE]
         /\ UNCHANGED <<rows, used, db, deck, png, uploads, jobs>>
    ELSE
    LET row == db[p]
        t == Now(p)
        regen == DeckNeedsGeneration(row, deck[p])
        row1 == IF regen
                THEN update_poster_filepaths(row, PptxPath, row.preview_image_path, t + 1)
                ELSE row
        row2 == update_poster_preview_status(row1, PENDING, NULL, NULL, t + 2)
    IN  /\ InFlight < MaxJobs
        /\ Settle(p, row2, IF regen THEN t ELSE deck[p], png[p])
        /\ jobs' = add_task(p)
        /\ last' = Step("trigger", p, "200", 1, regen, NULL)
        /\ UNCHANGED <<rows, used, uploads>>

\* POST /posters/{poster_id}/generate_pptx.
trigger_pptx_generation(p, render_ok) ==
    IF p \notin rows
    THEN /\ last' = Step("trigger", p, "404", 0, FALSE, NULL)
         /\ UNCHANGED <<rows, used, db, deck, png, uploads, jobs>>
    ELSE IF ~render_ok
    THEN /\ last' = [Step("trigger", p, "500", 0, FALSE, NULL)
                       EXCEPT !.render_failed = TRUE]
         /\ UNCHANGED <<rows, used, db, deck, png, uploads, jobs>>
    ELSE
    LET row == db[p]
        t == Now(p)
        row1 == update_poster_filepaths(row, PptxPath, row.preview_image_path, t + 1)
        row2 == update_poster_preview_status(row1, PENDING, NULL, NULL, t + 2)
    IN  /\ InFlight < MaxJobs
        /\ Settle(p, row2, t, png[p])
        /\ jobs' = add_task(p)
        /\ last' = Step("trigger", p, "200", 1, TRUE, NULL)
        /\ UNCHANGED <<rows, used, uploads>>

\* upload_image_for_section_endpoint lines 328-336: every section again as a
\* SectionCreate, the target one with the stored path appended.
SectionsWithImage(sections, section_id, stored_path) ==
    [k \in 1..Len(sections) |->
        IF sections[k].section_id = section_id
        THEN [SectionCreate(sections[k]) EXCEPT
                 !.image_urls = Append(sections[k].image_urls, stored_path)]
        ELSE SectionCreate(sections[k])]

\* POST /posters/{poster_id}/sections/{section_id}/upload_image.  file is
\* "ok", "bad_type" (extension not allowed) or "too_large"; save_ok: writing
\* the file succeeds; rmtree_ok: the store's removal of the directories of
\* the old sections succeeds (crud.py lines 110-114 log a failure and go on).
upload_image_for_section_endpoint(p, section_id, file, save_ok, rmtree_ok) ==
    IF p \notin rows \/ FindSection(db[p].sections, section_id) = 0
    THEN /\ last' = Step("upload", p, "404", 0, FALSE, NULL)
         /\ UNCHANGED <<rows, used, db, deck, png, uploads, jobs>>
    ELSE IF file # "ok"
    THEN /\ last' = Step("upload", p, IF file = "bad_type" THEN "400" ELSE "413",
                         0, FALSE, NULL)
         /\ UNCHANGED <<rows, used, db, deck, png, uploads, jobs>>
    ELSE
    LET row == db[p]
        name == FreshImageName
        \* lines 312-316: where the file is saved, and the path that is stored
        saved == <<p, section_id, name>>
        stored == <<"uploaded_images", p, section_id, name>>
        upd == PosterUpdate([sections |->
                                SectionsWithImage(row.sections, section_id, stored)])
        t == Now(p)
        fresh == FreshSectionIds(IdsNeeded(upd))
        row1 == update_poster_data(row, upd, fresh, t)
        row2 == update_poster_preview_status(row1, PENDING, NULL, NULL, t + 1)
    IN  /\ Len(row.sections[FindSection(row.sections, section_id)].image_urls) < MaxImages
        /\ IF ~save_ok
           THEN /\ last' = Step("upload", p, "500", 0, FALSE, NULL)
                /\ UNCHANGED <<db, deck, png, uploads>>
           ELSE /\ Len(fresh) = IdsNeeded(upd)
                /\ uploads' = IF rmtree_ok
                              THEN update_poster_data_files(uploads \cup {saved}, p, row, upd)
                              ELSE DeleteSectionImages(uploads \cup {saved}, row.sections)
                /\ Settle(p, row2, deck[p], png[p])
                /\ last' = [Step("upload", p, "200", 0, FALSE, NULL)
                              EXCEPT !.staged = {"sections"}, !.store_calls = 1,
                                     !.content_changed =
                                         Content(db'[p]) # Content(db[p])]
        /\ UNCHANGED <<rows, used, jobs>>

\* crud.delete_poster (no route calls it): the uploaded images and the
\* directories of the sections, the poster's upload directory, and the row
\* with its sections.
delete_poster(p) ==
    /\ p \in rows
    /\ uploads' = rmtree(DeleteSectionFiles(uploads, p, db[p].sections), <<p>>)
    /\ rows' = rows \ {p}
    /\ Settle(p, NewRow(<<"U">>, <<"i">>), deck[p], png[p])
    /\ last' = Step("delete", p, "none", 0, FALSE, NULL)
    /\ UNCHANGED <<used, jobs>>

-----------------------------------------------------------------------------
(***************************************************************************)
(* The background job: utils/preview_generator.py                          *)
(***************************************************************************)

\* Fault variant of JobStore: the job writes the whole row back from the copy
\* it holds, whose title and sections are those of the poster as created.
JobStoreStaleRow(p, kwargs) ==
    IF p \in rows
    THEN Settle(p, update_poster_data([db[p] EXCEPT !.title = <<"U">>,
                                                    !.sections = << >>],
                                      PosterUpdate(kwargs), << >>, Now(p)),
                deck[p], png[p])
    ELSE UNCHANGED <<db, deck, png>>

\* Fault variant of JobStore: the row is written without looking it up.
JobStoreNoLookup(p, kwargs) ==
    Settle(p, update_poster_data(db[p], PosterUpdate(kwargs), << >>, Now(p)),
           deck[p], png[p])

\* A store call of the job on poster p: crud.update_poster_data returns None
\* and writes nothing when the row is gone.
JobStore(p, kwargs) ==
    IF p \in rows
    THEN Settle(p, update_poster_data(db[p], PosterUpdate(kwargs), << >>, Now(p)),
                deck[p], png[p])
    ELSE UNCHANGED <<db, deck, png>>

\* Line 101: status "generating".  raises: the store call raises.
JobStart(j, raises) ==
    LET p == j.poster_id
    IN  /\ BagIn(j, jobs) /\ j.pc = "queued"
        /\ IF raises
           THEN /\ jobs' = Advance(j, [j EXCEPT !.pc = "except"])
                /\ UNCHANGED <<db, deck, png>>
           ELSE /\ JobStore(p, [preview_status |-> GENERATING])
                /\ jobs' = Advance(j, [j EXCEPT !.pc = "convert",
                                                !.wrote_generating = p \in rows])
        /\ last' = Step(IF raises THEN "job_raise" ELSE "job_start", p, "none", 0,
                        FALSE, NULL)
        /\ UNCHANGED <<rows, used, uploads>>

\* Line 104, convert_pptx_to_png_soffice: None when the deck file is missing
\* or the external process fails or times out, else the image it wrote.
JobConvert(j, soffice_ok) ==
    LET p == j.poster_id
        ok == deck[p] # 0 /\ soffice_ok
    IN  /\ BagIn(j, jobs) /\ j.pc = "convert"
        /\ jobs' = Advance(j, [j EXCEPT !.pc = "write",
                                        !.png_path = IF ok THEN PngPath ELSE NULL])
        /\ IF ok
           THEN Settle(p, db[p], deck[p], Now(p))
           ELSE UNCHANGED <<db, deck, png>>
        /\ last' = Step("job_convert", p, "none", 0, FALSE, IF ok THEN PngPath ELSE NULL)
        /\ UNCHANGED <<rows, used, uploads>>

\* Fault variant of JobWrite: the terminal status is stored only while the
\* poster is still generating (a compare-and-set guarding against other jobs).
JobWriteIfGenerating(j, raises) ==
    LET p == j.poster_id
    IN  /\ BagIn(j, jobs) /\ j.pc = "write"
        /\ IF raises
           THEN /\ jobs' = Advance(j, [j EXCEPT !.pc = "except"])
                /\ last' = Step("job_raise", p, "none", 0, FALSE, j.png_path)
                /\ UNCHANGED <<db, deck, png>>
           ELSE /\ IF p \in rows /\ db[p].preview_status # GENERATING
                   THEN UNCHANGED <<db, deck, png>>
                   ELSE IF j.png_path # NULL
                   THEN JobStore(p, [preview_status |-> COMPLETED,
                                     preview_image_path |-> j.png_path])
                   ELSE JobStore(p, [preview_status |-> FAILED,
                                     preview_last_error |-> ErrSoffice])
                /\ jobs' = Finish(j)
                /\ last' = [Step("job_write", p, "none", 0, FALSE, j.png_path)
                              EXCEPT !.job_wrote_generating = j.wrote_generating,
                                     !.job_wrote_terminal = p \in rows]
        /\ UNCHANGED <<rows, used, uploads>>

\* Fault variant of JobWrite: the failed status is stored without a message.
JobWriteNoDiagnostic(j, raises) ==
    LET p == j.poster_id
    IN  /\ BagIn(j, jobs) /\ j.pc = "write"
        /\ IF raises
           THEN /\ jobs' = Advance(j, [j EXCEPT !.pc = "except"])
                /\ last' = Step("job_raise", p, "none", 0, FALSE, j.png_path)
                /\ UNCHANGED <<db, deck, png>>
           ELSE /\ IF j.png_path # NULL
                   THEN JobStore(p, [preview_status |-> COMPLETED,
                                     preview_image_path |-> j.png_path])
                   ELSE JobStore(p, [preview_status |-> FAILED])
                /\ jobs' = Finish(j)
                /\ last' = [Step("job_write", p, "none", 0, FALSE, j.png_path)
                              EXCEPT !.job_wrote_generating = j.wrote_generating,
                                     !.job_wrote_terminal = p \in rows]
        /\ UNCHANGED <<rows, used, uploads>>

\* Lines 107-114: the terminal status.
JobWrite(j, raises) ==
    LET p == j.poster_id
    IN  /\ BagIn(j, jobs) /\ j.pc = "write"
        /\ IF raises
           THEN /\ jobs' = Advance(j, [j EXCEPT !.pc = "except"])
                /\ last' = Step("job_raise", p, "none", 0, FALSE, j.png_path)
                /\ UNCHANGED <<db, deck, png>>
           ELSE /\ IF j.png_path # NULL
                   THEN JobStore(p, [preview_status |-> COMPLETED,
                                     preview_image_path |-> j.png_path])
                   ELSE JobStore(p, [preview_status |-> FAILED,
                                     preview_last_error |-> ErrSoffice])
                /\ jobs' = Finish(j)
                /\ last' = [Step("job_write", p, "none", 0, FALSE, j.png_path)
                              EXCEPT !.job_wrote_generating = j.wrote_generating,
                                     !.job_wrote_terminal = p \in rows]
        /\ UNCHANGED <<rows, used, uploads>>

\* Fault variant of JobExcept: the exception is printed and nothing is stored.
JobExceptPrintOnly(j, raises) ==
    LET p == j.poster_id
    IN  /\ BagIn(j, jobs) /\ j.pc = "except"
        /\ jobs' = Finish(j)
        /\ last' = [Step("job_except", p, "none", 0, FALSE, NULL)
                      EXCEPT !.job_wrote_generating = j.wrote_generating,
                             !.job_write_failed = raises]
        /\ UNCHANGED <<rows, used, db, deck, png, uploads>>

\* Lines 116-123: the except branch; its own store call may raise too, which
\* is only printed.
JobExcept(j, raises) ==
    LET p == j.poster_id
    IN  /\ BagIn(j, jobs) /\ j.pc = "except"
        /\ IF raises
           THEN UNCHANGED <<db, deck, png>>
           ELSE JobStore(p, [preview_status |-> FAILED,
                             preview_last_error |-> ErrUnexpected])
        /\ jobs' = Finish(j)
        /\ last' = [Step("job_except", p, "none", 0, FALSE, NULL)
                      EXCEPT !.job_wrote_generating = j.wrote_generating,
                             !.job_wrote_terminal = ~raises /\ p \in rows,
                             !.job_write_failed = raises]
        /\ UNCHANGED <<rows, used, uploads>>

\* The states a task of poster p can be in.
JobStates ==
    [ pc : {"queued", "convert", "write", "except"}, poster_id : PosterIds,
      png_path : {NULL, PngPath}, wrote_generating : BOOLEAN ]

-----------------------------------------------------------------------------
Init ==
    /\ rows = {}
    /\ used = {}
    /\ db = [p \in PosterIds |-> NewRow(<<"U">>, <<"i">>)]
    /\ deck = [p \in PosterIds |-> 0]
    /\ png = [p \in PosterIds |-> 0]
    /\ uploads = {}
    /\ jobs = EmptyBag
    /\ last = Step("none", NULL, "none", 0, FALSE, NULL)

\* The edit requests of this specification: a direct title update and a
\* direct replacement of the section list.
DirectTitle ==
    [ prompt_text |-> <<"T">>, target_element_id |-> <<"poster", "title">>,
      selected_theme |-> NULL, style_overrides |-> NULL,
      is_direct_update |-> TRUE, sections |-> << >> ]

DirectSections ==
    [ prompt_text |-> NoText, target_element_id |-> << >>,
      selected_theme |-> NULL, style_overrides |-> NULL,
      is_direct_update |-> TRUE,
      sections |-> << << [ section_title |-> <<"S">>, section_content |-> NoText,
                           image_urls |-> << >> ] >> >> ]

Requests == {DirectTitle, DirectSections}

NoLLM == [kind |-> "raise", text |-> << >>]

Next ==
    \/ \E p \in PosterIds, topic \in {NULL} : create_poster_session(p, topic)
    \/ \E p \in PosterIds, request \in Requests, store_ok \in BOOLEAN :
          handle_llm_prompt(p, request, NoLLM, store_ok)
    \/ \E p \in PosterIds, sid \in SectionIds, file \in {"ok", "bad_type", "too_large"},
          save_ok \in BOOLEAN :
          upload_image_for_section_endpoint(p, sid, file, save_ok, TRUE)
    \/ \E p \in PosterIds : delete_poster(p)
    \/ \E p \in PosterIds, render_ok \in BOOLEAN : get_poster_preview(p, render_ok)
    \/ \E p \in PosterIds, render_ok \in BOOLEAN : trigger_pptx_generation(p, render_ok)
    \/ \E j \in JobStates, raises \in BOOLEAN : JobStart(j, raises)
    \/ \E j \in JobStates, soffice_ok \in BOOLEAN : JobConvert(j, soffice_ok)
    \/ \E j \in JobStates, raises \in BOOLEAN : JobWrite(j, raises)
    \/ \E j \in JobStates, raises \in BOOLEAN : JobExcept(j, raises)

Spec == Init /\ [][Next]_vars

\* The preview pipeline alone: creation, an edit of the title, deletion, the
\* two requests that render the deck, and the job.
PipelineNext ==
    \/ \E p \in PosterIds : create_poster_session(p, NULL)
    \/ \E p \in PosterIds, store_ok \in BOOLEAN :
          handle_llm_prompt(p, DirectTitle, NoLLM, store_ok)
    \/ \E p \in PosterIds : delete_poster(p)
    \/ \E p \in PosterIds, render_ok \in BOOLEAN : get_poster_preview(p, render_ok)
    \/ \E p \in PosterIds, render_ok \in BOOLEAN : trigger_pptx_generation(p, render_ok)
    \/ \E j \in JobStates, raises \in BOOLEAN : JobStart(j, raises)
    \/ \E j \in JobStates, soffice_ok \in BOOLEAN : JobConvert(j, soffice_ok)
    \/ \E j \in JobStates, raises \in BOOLEAN : JobWrite(j, raises)
    \/ \E j \in JobStates, raises \in BOOLEAN : JobExcept(j, raises)

PipelineSpec == Init /\ [][PipelineNext]_vars

\* A client that polls the preview of a poster nobody edits, with a deck
\* renderer, a rasterizer and a store that never fail.  The client keeps
\* polling, and the thread pool runs every queued job to its end.
Poll == \E p \in PosterIds : get_poster_preview(p, TRUE)
PollCreate == \E p \in PosterIds, topic \in {NULL, "topic"} : create_poster_session(p, topic)
PollJobStart == \E j \in JobStates : JobStart(j, FALSE)
PollJobConvert == \E j \in JobStates : JobConvert(j, TRUE)
PollJobWrite == \E j \in JobStates : JobWrite(j, FALSE)

PollNext == PollCreate \/ Poll \/ PollJobStart \/ PollJobConvert \/ PollJobWrite

PollSpec ==
    /\ Init /\ [][PollNext]_vars
    /\ WF_vars(PollCreate) /\ WF_vars(Poll)
    /\ WF_vars(PollJobStart) /\ WF_vars(PollJobConvert) /\ WF_vars(PollJobWrite)

\* Two posters, for what a job does to a poster that was deleted under it and
\* to the other poster: both can be created and deleted, the first one is
\* previewed (which enqueues its jobs), the second one has its title edited.
TwoPosterIds == {"p1", "p2"}

TwoInit ==
    /\ rows = {}
    /\ used = {}
    /\ db = [p \in TwoPosterIds |-> NewRow(<<"U">>, <<"i">>)]
    /\ deck = [p \in TwoPosterIds |-> 0]
    /\ png = [p \in TwoPosterIds |-> 0]
    /\ uploads = {}
    /\ jobs = EmptyBag
    /\ last = Step("none", NULL, "none", 0, FALSE, NULL)

TwoNext ==
    \/ \E p \in TwoPosterIds : create_poster_session(p, NULL)
    \/ handle_llm_prompt("p2", DirectTitle, NoLLM, TRUE)
    \/ \E p \in TwoPosterIds : delete_poster(p)
    \/ \E render_ok \in BOOLEAN : get_poster_preview("p1", render_ok)
    \/ \E j \in JobStates, raises \in BOOLEAN : JobStart(j, raises)
    \/ \E j \in JobStates, soffice_ok \in BOOLEAN : JobConvert(j, soffice_ok)
    \/ \E j \in JobStates, raises \in BOOLEAN : JobWrite(j, raises)
    \/ \E j \in JobStates, raises \in BOOLEAN : JobExcept(j, raises)

TwoSpec == TwoInit /\ [][TwoNext]_vars

\* An edit that asks the LLM for a new title, and an LLM that answers with
\* text padded with whitespace.
LLMTitle ==
    [ prompt_text |-> <<"I">>, target_element_id |-> <<"poster", "title">>,
      selected_theme |-> NULL, style_overrides |-> NULL,
      is_direct_update |-> FALSE, sections |-> << >> ]

LLMReply == [kind |-> "content", text |-> <<" ", "L", " ">>]

\* Every operation that takes a poster id, on a poster that may not be in
\* the store (not created yet, or deleted): the edit (route and service), the
\* preview request, the trigger and the upload.
AddressNext ==
    \/ \E p \in PosterIds : create_poster_session(p, NULL)
    \/ \E p \in PosterIds : delete_poster(p)
    \/ \E p \in PosterIds : handle_llm_prompt(p, LLMTitle, LLMReply, TRUE)
    \/ \E p \in PosterIds : process_poster_update(p, LLMTitle, LLMReply, TRUE)
    \/ \E p \in PosterIds : get_poster_preview(p, TRUE)
    \/ \E p \in PosterIds : trigger_pptx_generation(p, TRUE)
    \/ \E p \in PosterIds, sid \in SectionIds :
          upload_image_for_section_endpoint(p, sid, "ok", TRUE, TRUE)
    \/ \E j \in JobStates : JobStart(j, FALSE)
    \/ \E j \in JobStates, soffice_ok \in BOOLEAN : JobConvert(j, soffice_ok)
    \/ \E j \in JobStates : JobWrite(j, FALSE)

AddressSpec == Init /\ [][AddressNext]_vars

\* The edit requests of the edit specification: a theme alone; a direct
\* update of each text field (the text starts with a blank); the direct
\* update aimed at a section, alone and with a theme; the edit of the title by
\* the LLM; the direct replacement of the section list; the direct update of
\* the title with the empty string.
ThemeOnly(theme) ==
    [ prompt_text |-> NoText, target_element_id |-> << >>,
      selected_theme |-> theme, style_overrides |-> NULL,
      is_direct_update |-> FALSE, sections |-> << >> ]

DirectField(target) ==
    [ prompt_text |-> <<" ", "T">>, target_element_id |-> target,
      selected_theme |-> NULL, style_overrides |-> NULL,
      is_direct_update |-> TRUE, sections |-> << >> ]

DirectSectionTarget(sec_id, theme) ==
    [ prompt_text |-> <<"T">>, target_element_id |-> <<"section", sec_id, "title">>,
      selected_theme |-> theme, style_overrides |-> NULL,
      is_direct_update |-> TRUE, sections |-> << >> ]

\* The direct update of the title with the empty string.
DirectEmptyTitle ==
    [ prompt_text |-> << >>, target_element_id |-> <<"poster", "title">>,
      selected_theme |-> NULL, style_overrides |-> NULL,
      is_direct_update |-> TRUE, sections |-> << >> ]

PosterTargets == {<<"poster", "title">>, <<"poster", "abstract">>,
                  <<"poster", "conclusion">>}

EditRequests ==
    {ThemeOnly("dark"), ThemeOnly("default")}
    \cup {DirectField(t) : t \in PosterTargets}
    \cup {DirectSectionTarget("s1", NULL), DirectSectionTarget("s1", "dark")}
    \cup {DirectEmptyTitle, LLMTitle, DirectSections}

\* What agent.step does when called: content padded with whitespace, content
\* of whitespace only, no content, or an exception.
LLMs ==
    {LLMReply, [kind |-> "content", text |-> <<" ">>],
     [kind |-> "empty", text |-> << >>], NoLLM}

\* The LLM behaviours tried with a request: all of them for a request that
\* can reach agent.step (it has a prompt_text and is not a direct update);
\* for the others, an LLM that raises if it is called.
LLMsFor(request) ==
    IF request.prompt_text # NoText /\ ~request.is_direct_update
    THEN LLMs ELSE {NoLLM}

\* Editing alone: creation, deletion and the edit, by the route and by the
\* service, with an LLM and a store that may fail.
EditNext ==
    \/ \E p \in PosterIds : create_poster_session(p, NULL)
    \/ \E p \in PosterIds : delete_poster(p)
    \/ \E p \in PosterIds, request \in EditRequests, store_ok \in BOOLEAN :
          \E llm \in LLMsFor(request) : handle_llm_prompt(p, request, llm, store_ok)
    \/ \E p \in PosterIds, request \in EditRequests, store_ok \in BOOLEAN :
          \E llm \in LLMsFor(request) : process_poster_update(p, request, llm, store_ok)

EditSpec == Init /\ [][EditNext]_vars

\* The section lists of the section specification: two sections, the first
\* one with an image on the web, and the empty list.
WebImage == <<"https:", "img">>

SecA == [ section_title |-> <<"A">>, section_content |-> NoText,
          image_urls |-> <<WebImage>> ]
SecB == [ section_title |-> <<"B">>, section_content |-> <<"b">>,
          image_urls |-> << >> ]

\* A request with a section list, in either mode, with or without a prompt.
WithSections(list, direct, prompt_text, target) ==
    [ prompt_text |-> prompt_text, target_element_id |-> target,
      selected_theme |-> NULL, style_overrides |-> NULL,
      is_direct_update |-> direct, sections |-> <<list>> ]

\* A request that asks the LLM for a new title or content of a section.
LLMSection(sec_id, part) ==
    [ prompt_text |-> <<"I">>, target_element_id |-> <<"section", sec_id, part>>,
      selected_theme |-> NULL, style_overrides |-> NULL,
      is_direct_update |-> FALSE, sections |-> << >> ]

\* The ids a client can name: those a replacement can hand out.
AllSectionIds == {SectionIdPool[k] : k \in 1..(2 * MaxSectionIds)}

SectionRequests ==
    {WithSections(<<SecA, SecB>>, direct, prompt_text, <<"poster", "title">>) :
        direct \in BOOLEAN, prompt_text \in {NoText, <<"T">>}}
    \cup {WithSections(<< >>, TRUE, NoText, << >>)}
    \cup {LLMSection(sec_id, part) :
            sec_id \in AllSectionIds, part \in {"title", "content"}}

SectionLLMsFor(request) ==
    IF request.prompt_text # NoText /\ ~request.is_direct_update
    THEN {LLMReply, NoLLM} ELSE {NoLLM}

\* The section lists: creation, deletion, the edits that replace the section
\* list or a field of one section (route and service) and the upload, whose
\* removal of the old directories may fail.
SectionNext ==
    \/ \E p \in PosterIds : create_poster_session(p, NULL)
    \/ \E p \in PosterIds : delete_poster(p)
    \/ \E p \in PosterIds, request \in SectionRequests :
          \E llm \in SectionLLMsFor(request) : handle_llm_prompt(p, request, llm, TRUE)
    \/ \E p \in PosterIds, request \in SectionRequests :
          \E llm \in SectionLLMsFor(request) : process_poster_update(p, request, llm, TRUE)
    \/ \E p \in PosterIds, sid \in AllSectionIds, rmtree_ok \in BOOLEAN :
          upload_image_for_section_endpoint(p, sid, "ok", TRUE, rmtree_ok)

SectionSpec == Init /\ [][SectionNext]_vars

\* The requests of the style specification: style overrides alone (a value,
\* or null), and an edit of the title by the LLM that comes with a theme, with
\* style overrides or with both.  A value of PosterElementStyles is kept as a
\* token: the code only passes it on (crud stores value.dict()).
StyleA == "style_a"
StyleB == "style_b"

StyleOnly(style) ==
    [ prompt_text |-> NoText, target_element_id |-> << >>,
      selected_theme |-> NULL, style_overrides |-> style,
      is_direct_update |-> FALSE, sections |-> << >> ]

LLMTitleWith(theme, style) ==
    [ prompt_text |-> <<"I">>, target_element_id |-> <<"poster", "title">>,
      selected_theme |-> theme, style_overrides |-> style,
      is_direct_update |-> FALSE, sections |-> << >> ]

StyleRequests ==
    {StyleOnly(style) : style \in {StyleA, StyleB, JsonNull, NULL}}
    \cup {LLMTitleWith(theme, style) :
            theme \in {NULL, "dark"}, style \in {NULL, StyleA}}

\* What agent.step does when called: content, no message, a message without
\* content and termination reasons given, or an exception.
StyleLLMs ==
    {LLMReply, [kind |-> "empty", text |-> << >>],
     [kind |-> "terminated", text |-> << >>], NoLLM}

StyleLLMsFor(request) ==
    IF request.prompt_text # NoText /\ ~request.is_direct_update
    THEN StyleLLMs ELSE {NoLLM}

\* Theme, style overrides and an LLM that may fail: creation, deletion and
\* the edit, by the route and by the service.
StyleNext ==
    \/ \E p \in PosterIds : create_poster_session(p, NULL)
    \/ \E p \in PosterIds : delete_poster(p)
    \/ \E p \in PosterIds, request \in StyleRequests :
          \E llm \in StyleLLMsFor(request) : handle_llm_prompt(p, request, llm, TRUE)
    \/ \E p \in PosterIds, request \in StyleRequests :
          \E llm \in StyleLLMsFor(request) : process_poster_update(p, request, llm, TRUE)

StyleSpec == Init /\ [][StyleNext]_vars

\* The files of the application root that exist beside the upload directory,
\* as paths relative to UPLOADED_IMAGES_DIR: the SQLite file of config.py.
OutsideFiles == {<<"..", "posters.db">>}

\* (UPLOADED_IMAGES_DIR / ref).is_file(): the path is joined as it is given.
is_file(files, ref) == ref \in files \/ ref \in OutsideFiles

\* generate_pptx_from_data, the loop over the image references of one
\* section: the local files handed to add_picture.  A URL is downloaded
\* (web_ok: the download and the insertion succeed, which ends the loop); an
\* empty reference or one that is not a file is skipped; a local file is
\* opened by add_picture, which ends the loop unless the file is no picture
\* (the exception is logged and the loop goes on).
RECURSIVE SectionReads(_, _, _)
SectionReads(files, image_urls, web_ok) ==
    IF image_urls = << >> THEN {}
    ELSE LET ref == Head(image_urls)
             rest == SectionReads(files, Tail(image_urls), web_ok)
         IN  IF IsUrl(ref) THEN (IF web_ok THEN {} ELSE rest)
             ELSE IF ref = << >> THEN rest
             ELSE IF ~is_file(files, ref) THEN rest
             ELSE IF ref \in OutsideFiles THEN {ref} \cup rest
             ELSE {ref}

\* The local files generate_pptx_from_data opens for a poster.
generate_pptx_reads(files, sections, web_ok) ==
    UNION {SectionReads(files, sections[i].image_urls, web_ok) :
              i \in 1..Len(sections)}

\* The requests of the traversal specification: a direct replacement of the
\* section list by a section whose image reference leaves the upload
\* directory, and one by a section without images.
SecOutside == [ section_title |-> <<"X">>, section_content |-> NoText,
                image_urls |-> << <<"..", "posters.db">> >> ]

TraversalRequests ==
    { WithSections(<<SecOutside>>, TRUE, NoText, << >>),
      WithSections(<<SecB>>, TRUE, NoText, << >>) }

TraversalNext ==
    \/ \E p \in PosterIds : create_poster_session(p, NULL)
    \/ \E p \in PosterIds, request \in TraversalRequests :
          handle_llm_prompt(p, request, NoLLM, TRUE)
    \/ \E p \in PosterIds : delete_poster(p)
    \/ \E p \in PosterIds, render_ok \in BOOLEAN : get_poster_preview(p, render_ok)
    \/ \E p \in PosterIds, render_ok \in BOOLEAN : trigger_pptx_generation(p, render_ok)
    \/ \E j \in JobStates, raises \in BOOLEAN : JobStart(j, raises)
    \/ \E j \in JobStates, soffice_ok \in BOOLEAN : JobConvert(j, soffice_ok)
    \/ \E j \in JobStates, raises \in BOOLEAN : JobWrite(j, raises)
    \/ \E j \in JobStates, raises \in BOOLEAN : JobExcept(j, raises)

TraversalSpec == Init /\ [][TraversalNext]_vars

\* The deletion specification: a poster gets sections, uploads (the removal of
\* the old section directory can fail), a deck and a preview image, and is
\* deleted.
DeleteNext ==
    \/ \E p \in PosterIds : create_poster_session(p, NULL)
    \/ \E p \in PosterIds :
          handle_llm_prompt(p, WithSections(<<SecB>>, TRUE, NoText, << >>), NoLLM, TRUE)
    \/ \E p \in PosterIds, sid \in AllSectionIds, rmtree_ok \in BOOLEAN :
          upload_image_for_section_endpoint(p, sid, "ok", TRUE, rmtree_ok)
    \/ \E p \in PosterIds : delete_poster(p)
    \/ \E p \in PosterIds : trigger_pptx_generation(p, TRUE)
    \/ \E j \in JobStates : JobStart(j, FALSE)
    \/ \E j \in JobStates, soffice_ok \in BOOLEAN : JobConvert(j, soffice_ok)
    \/ \E j \in JobStates, raises \in BOOLEAN : JobWrite(j, raises)
    \/ \E j \in JobStates, raises \in BOOLEAN : JobExcept(j, raises)

DeleteSpec == Init /\ [][DeleteNext]_vars

\* The ownership specification: two posters are created, get their section
\* lists replaced (by one section, by none), get uploads, and are deleted.
OwnerRequests ==
    { WithSections(<<SecB>>, TRUE, NoText, << >>),
      WithSections(<< >>, TRUE, NoText, << >>) }

OwnerNext ==
    \/ \E p \in TwoPosterIds : create_poster_session(p, NULL)
    \/ \E p \in TwoPosterIds, request \in OwnerRequests :
          handle_llm_prompt(p, request, NoLLM, TRUE)
    \/ \E p \in TwoPosterIds, sid \in AllSectionIds, rmtree_ok \in BOOLEAN :
          upload_image_for_section_endpoint(p, sid, "ok", TRUE, rmtree_ok)
    \/ \E p \in TwoPosterIds : delete_poster(p)

OwnerSpec == TwoInit /\ [][OwnerNext]_vars

\* The requests of the atomicity specification, each staging several fields:
\* theme, style overrides and a title from the LLM; theme, style overrides and
\* a section list; theme and a direct title.
AtomicRequests ==
    { LLMTitleWith("dark", StyleA),
      [WithSections(<<SecB>>, TRUE, NoText, << >>) EXCEPT
          !.selected_theme = "light", !.style_overrides = StyleB],
      [DirectTitle EXCEPT !.selected_theme = "dark"] }

AtomicLLMsFor(request) ==
    IF request.prompt_text # NoText /\ ~request.is_direct_update
    THEN {LLMReply, NoLLM} ELSE {NoLLM}

\* Edits of several fields with a store that may fail.
AtomicNext ==
    \/ \E p \in PosterIds : create_poster_session(p, NULL)
    \/ \E p \in PosterIds : delete_poster(p)
    \/ \E p \in PosterIds, request \in AtomicRequests, store_ok \in BOOLEAN :
          \E llm \in AtomicLLMsFor(request) : handle_llm_prompt(p, request, llm, store_ok)
    \/ \E p \in PosterIds, request \in AtomicRequests, store_ok \in BOOLEAN :
          \E llm \in AtomicLLMsFor(request) :
             process_poster_update(p, request, llm, store_ok)

AtomicSpec == Init /\ [][AtomicNext]_vars

\* The targets of the target specification: the three poster fields, and two
\* identifiers that name neither a poster field nor a section
\* ("poster_footer", "footer").
OtherTargets == {<<"poster", "footer">>, <<"footer">>}

TargetRequests ==
    {DirectField(t) : t \in PosterTargets \cup OtherTargets}
    \cup {DirectTitle, DirectEmptyTitle}

\* Direct updates of one target: creation, deletion and the edit, by the
\* route and by the service.
TargetNext ==
    \/ \E p \in PosterIds : create_poster_session(p, NULL)
    \/ \E p \in PosterIds : delete_poster(p)
    \/ \E p \in PosterIds, request \in TargetRequests :
          handle_llm_prompt(p, request, NoLLM, TRUE)
    \/ \E p \in PosterIds, request \in TargetRequests :
          process_poster_update(p, request, NoLLM, TRUE)

TargetSpec == Init /\ [][TargetNext]_vars

-----------------------------------------------------------------------------
(***************************************************************************)
(* Properties                                                              *)
(***************************************************************************)

\* The deck of poster p is missing or older than last_modified.
DeckStale(p) ==
    db[p].pptx_file_path = NULL \/ deck[p] = 0 \/ db[p].last_modified > deck[p]

\* The preview image file of poster p is on disk and newer than the deck.
ImageFresh(p) == png[p] # 0 /\ deck[p] # 0 /\ png[p] > deck[p]

\* The step is a preview request for poster p, which exists.
PreviewStep(p) == p \in rows /\ last'.op = "preview" /\ last'.poster_id = p

\* C1: polling converges: with nobody editing the poster and a renderer and a
\* rasterizer that always succeed, a client that keeps polling (every job
\* running to its end) eventually gets the image served directly, with status
\* completed, the image path recorded and no job enqueued.
C1_PollingConverges ==
    <>(\E p \in rows :
          /\ last.op = "preview" /\ last.poster_id = p
          /\ last.resp = "file" /\ last.enqueued = 0
          /\ db[p].preview_status = COMPLETED
          /\ db[p].preview_image_path # NULL)

\* C2: when the rasterizer of a job succeeded, the job's own write leaves the
\* poster completed, with the produced image path stored and the error
\* cleared (the state right after the write, before anyone else writes).
C2_JobSuccessRecorded ==
    \A p \in rows :
        (last.op = "job_write" /\ last.poster_id = p /\ last.png_path # NULL)
        => /\ db[p].preview_status = COMPLETED
           /\ db[p].preview_image_path = last.png_path
           /\ db[p].preview_last_error = NULL

\* C3: a job never leaves the poster stuck in generating: a job that wrote
\* generating for a poster that still exists has, when it ends, written a
\* terminal status (completed or failed), whether the rasterizer succeeded,
\* returned no image or an exception was raised, unless the final store
\* write itself failed.
C3_JobEndsTerminal ==
    \A p \in rows :
        ( /\ last.op \in {"job_write", "job_except"} /\ last.poster_id = p
          /\ last.job_wrote_generating
          /\ ~last.job_write_failed )
        => /\ last.job_wrote_terminal
           /\ db[p].preview_status \in {COMPLETED, FAILED}

\* C3 witness: a job that wrote generating met an exception and ended with
\* the failed status and the diagnostic stored.
C3_Witness ==
    \E p \in rows :
        /\ last.op = "job_except" /\ last.poster_id = p
        /\ last.job_wrote_generating /\ ~last.job_write_failed
        /\ db[p].preview_status = FAILED
        /\ db[p].preview_last_error = ErrUnexpected

\* C4: a preview request that observes pending, with a job queued for the
\* poster, answers "in progress" and enqueues no further job (a request whose
\* deck rendering fails aside).
C4_PendingNotDuplicated ==
    [][\A p \in PosterIds :
          ( /\ PreviewStep(p)
            /\ db[p].preview_status = PENDING
            /\ \E j \in BagToSet(jobs) : j.poster_id = p /\ j.pc = "queued"
            /\ last'.resp # "500" )
          => (last'.resp = "202" /\ jobs' = jobs)]_vars

\* C5 as amended: a preview request that observes generating, and whose deck
\* rendering (if the deck had to be rendered) did not fail, answers "in
\* progress", enqueues no job and leaves the status generating, whether or
\* not the preview is stale.
C5_GeneratingLeftAlone ==
    [][\A p \in PosterIds :
          ( /\ PreviewStep(p)
            /\ db[p].preview_status = GENERATING
            /\ last'.resp # "500" )
          => /\ last'.resp = "202"
             /\ jobs' = jobs
             /\ db'[p].preview_status = GENERATING]_vars

\* C5 as stated: the same for every preview request that observes generating.
C5_AsStated ==
    [][\A p \in PosterIds :
          (PreviewStep(p) /\ db[p].preview_status = GENERATING)
          => /\ last'.resp = "202"
             /\ jobs' = jobs
             /\ db'[p].preview_status = GENERATING]_vars

\* C5 witness: a request found generating and a stale deck, rendered the
\* deck, answered "in progress" and enqueued nothing.
C5_Witness ==
    \E p \in rows :
        /\ last.op = "preview" /\ last.poster_id = p
        /\ last.pre_status = GENERATING /\ last.pre_deck_stale
        /\ last.resp = "202" /\ last.enqueued = 0 /\ last.deck_regenerated
        /\ db[p].preview_status = GENERATING

\* What C6 asks of a preview step on poster p: the deck is rendered anew (it is
\* the newest file and its path is stored), then the status is pending (the
\* status write is stamped after the deck when it changes the row), and
\* exactly one job is added to the queue.
C6_Outcome(p) ==
    /\ last'.deck_regenerated
    /\ db'[p].pptx_file_path = PptxPath
    /\ deck'[p] # 0 /\ deck'[p] > png'[p]
    /\ db'[p].preview_status = PENDING
    /\ (db[p].preview_status # PENDING => db'[p].last_modified > deck'[p])
    /\ jobs' = jobs (+) SetToBag({QueuedJob(p)})
    /\ last'.resp = "202"

\* C6 as amended: for a poster whose deck is missing or older than
\* last_modified and whose status is not generating, a preview request whose
\* deck rendering does not fail renders the deck, then sets the status to
\* pending and enqueues exactly one job.
C6_StaleDeckRegenerated ==
    [][\A p \in PosterIds :
          ( /\ PreviewStep(p)
            /\ DeckStale(p)
            /\ db[p].preview_status # GENERATING
            /\ last'.resp # "500" )
          => C6_Outcome(p)]_vars

\* C6 as stated: the same for every such preview request.
C6_AsStated ==
    [][\A p \in PosterIds :
          ( /\ PreviewStep(p)
            /\ DeckStale(p)
            /\ db[p].preview_status # GENERATING )
          => C6_Outcome(p)]_vars

\* C6 witness: a request found a deck older than last_modified and a failed
\* status, rendered the deck, set pending and enqueued a job.
C6_Witness ==
    \E p \in rows :
        /\ last.op = "preview" /\ last.poster_id = p
        /\ last.pre_status = FAILED /\ last.pre_deck_stale
        /\ last.deck_regenerated /\ last.enqueued = 1
        /\ db[p].preview_status = PENDING
        /\ db[p].last_modified > deck[p] /\ deck[p] > png[p] /\ png[p] # 0

\* C7: for a completed poster whose preview image is on disk and newer than
\* the deck, a preview request serves the image, enqueues no job and leaves
\* the status alone (a request whose deck rendering fails aside).
C7_FreshImageServed ==
    [][\A p \in PosterIds :
          ( /\ PreviewStep(p)
            /\ db[p].preview_status = COMPLETED
            /\ ImageFresh(p)
            /\ last'.resp # "500" )
          => /\ last'.resp = "file"
             /\ jobs' = jobs
             /\ db'[p].preview_status = COMPLETED]_vars

\* C8: a stale preview is never served: the image is served only when the
\* status is completed, the image exists and the deck is not newer than it;
\* and the preview request that follows an edit that changed the content
\* (the status not being generating, the rendering not failing) renders the
\* deck anew, does not serve the old image and moves to pending.
C8_StaleNeverServed ==
    [][\A p \in PosterIds :
          /\ (PreviewStep(p) /\ last'.resp = "file")
             => /\ db'[p].preview_status = COMPLETED
                /\ png'[p] # 0 /\ png'[p] >= deck'[p]
          /\ ( /\ PreviewStep(p)
               /\ last.op \in {"prompt", "upload"} /\ last.poster_id = p
               /\ last.content_changed
               /\ db[p].preview_status # GENERATING
               /\ last'.resp # "500" )
             => /\ last'.deck_regenerated
                /\ last'.resp # "file"
                /\ db'[p].preview_status = PENDING]_vars

\* C9: in every reachable state the preview_status of every poster is one of
\* pending, generating, completed, failed.
C9_StatusDomain ==
    \A p \in rows : db[p].preview_status \in {PENDING, GENERATING, COMPLETED, FAILED}

\* C9 witness: an upload has set the status of a poster whose job is under
\* way.
C9_Witness ==
    \E p \in rows :
        /\ last.op = "upload" /\ last.poster_id = p /\ last.resp = "200"
        /\ last.pre_status \in {GENERATING, FAILED}
        /\ db[p].preview_status = PENDING
        /\ InFlight > 0

\* C10: in every reachable state, from creation on, a poster that is
\* completed has a preview_image_path, the image of the last successful run.
C10_CompletedHasImage ==
    \A p \in rows :
        db[p].preview_status = COMPLETED
        => (db[p].preview_image_path = PngPath /\ png[p] # 0)

\* C11: jobs of one poster are not serialised, and the job that finishes
\* last decides the status: right after the final store write of a job (one
\* that did not raise) on a poster that exists, preview_status is the status
\* that job wrote (completed when its rasterizer gave an image, failed
\* otherwise), whatever another job of the poster wrote before.
C11_LastJobWins ==
    \A p \in rows :
        /\ (last.op = "job_write" /\ last.poster_id = p)
           => db[p].preview_status =
                  (IF last.png_path # NULL THEN COMPLETED ELSE FAILED)
        /\ (last.op = "job_except" /\ last.poster_id = p /\ ~last.job_write_failed)
           => db[p].preview_status = FAILED

\* C11 witness: two jobs of one poster overlapped; one wrote failed, then the
\* other finished and wrote completed over it.  (The error text of the first
\* job is still stored: no request wrote the status between the two writes, so
\* the second job was enqueued before the first one ended.)
C11_Witness ==
    \E p \in rows :
        /\ last.op = "job_write" /\ last.poster_id = p
        /\ last.png_path # NULL /\ last.job_wrote_generating
        /\ last.pre_status = FAILED
        /\ db[p].preview_last_error = ErrSoffice
        /\ db[p].preview_status = COMPLETED

\* The steps of a background job.
JobOps == {"job_start", "job_convert", "job_write", "job_except", "job_raise"}

\* C12: a job whose poster was deleted while it was queued or running writes
\* nothing: every step of the job leaves the set of rows (the poster is not
\* re-created), every row of the store and the files of every other poster
\* as they were, and the step of its final write ends the job (a store call
\* that raises for another reason goes to the except branch, whose write is a
\* no-op too and ends the job).
C12_DeletedPosterJobNoOp ==
    [][\A p \in TwoPosterIds :
          (p \notin rows /\ last'.op \in JobOps /\ last'.poster_id = p)
          => /\ rows' = rows
             /\ db' = db
             /\ uploads' = uploads
             /\ \A q \in TwoPosterIds \ {p} : deck'[q] = deck[q] /\ png'[q] = png[q]
             /\ ~last'.job_wrote_terminal
             /\ (last'.op \in {"job_write", "job_except"}
                 => BagCardinality(jobs') = BagCardinality(jobs) - 1)]_vars

\* C12 witness: the last job of a deleted poster has made its final write
\* and ended, with the other poster, edited before, still in the store.
C12_Witness ==
    /\ last.op = "job_write" /\ last.poster_id = "p1"
    /\ "p1" \in used /\ "p1" \notin rows
    /\ jobs = EmptyBag
    /\ "p2" \in rows /\ db["p2"].title = <<"T">>

\* C13: when the deck rendering inside a preview request fails, the request
\* leaves the poster failed with the renderer's error stored, answers with an
\* error (500) and enqueues no job; the rendering was attempted because the
\* deck was missing or older than last_modified.
C13_RenderFailureRecorded ==
    [][\A p \in PosterIds :
          (PreviewStep(p) /\ last'.render_failed)
          => /\ DeckStale(p)
             /\ db'[p].preview_status = FAILED
             /\ db'[p].preview_last_error = ErrRender
             /\ last'.resp = "500"
             /\ last'.enqueued = 0 /\ jobs' = jobs
             /\ deck'[p] = 0 <=> deck[p] = 0]_vars

\* C13 witness: a request on a completed poster with a job still queued found
\* the deck stale, the rendering failed, and the poster is failed with the
\* renderer's error, the queue as it was.
C13_Witness ==
    \E p \in rows :
        /\ last.op = "preview" /\ last.poster_id = p /\ last.render_failed
        /\ last.pre_status = COMPLETED /\ last.pre_deck_stale
        /\ last.resp = "500"
        /\ db[p].preview_status = FAILED /\ db[p].preview_last_error = ErrRender
        /\ InFlight = 1

TriggerStep(p) == p \in rows /\ last'.op = "trigger" /\ last'.poster_id = p

\* What C15 asks of a trigger step on poster p: the deck is rendered anew (it
\* is on disk and newer than the preview image), its path is stored, the
\* status is pending, exactly one job is added to the queue and the request
\* succeeds.
C15_Outcome(p) ==
    /\ last'.deck_regenerated
    /\ deck'[p] # 0 /\ deck'[p] > png'[p]
    /\ db'[p].pptx_file_path = PptxPath
    /\ db'[p].preview_status = PENDING
    /\ jobs' = jobs (+) SetToBag({QueuedJob(p)})
    /\ last'.enqueued = 1
    /\ last'.resp = "200"

AddressedOps == {"prompt", "service", "preview", "trigger", "upload"}

\* C16: an operation addressed to a poster id that is not in the store (edit
\* by the route or by the service, preview request, trigger, upload) ends
\* with the not-found outcome and without side effects: no LLM call, no store
\* call, no row, file or upload changed, no job enqueued.
C16_MissingPosterNoEffect ==
    [][\A p \in PosterIds :
          (p \notin rows /\ last'.op \in AddressedOps /\ last'.poster_id = p)
          => /\ last'.resp \in {"404", ValueErrorNotFound}
             /\ last'.llm_calls = 0
             /\ last'.store_calls = 0
             /\ last'.enqueued = 0 /\ ~last'.deck_regenerated
             /\ rows' = rows /\ db' = db
             /\ deck' = deck /\ png' = png /\ uploads' = uploads
             /\ jobs' = jobs]_vars

\* C16 witness: an edit that would have asked the LLM was addressed to a
\* poster deleted before, whose deck and preview image are still on disk,
\* and got the not-found answer.
C16_Witness ==
    \E p \in used \ rows :
        /\ last.op = "prompt" /\ last.poster_id = p
        /\ last.resp = "404" /\ last.llm_calls = 0
        /\ deck[p] # 0 /\ png[p] # 0

\* The step is an edit (by the route or by the service) of poster p, which
\* exists, and the store update, if there was one, did not raise.
EditStep(p) ==
    /\ p \in rows
    /\ last'.op \in {"prompt", "service"} /\ last'.poster_id = p
    /\ last'.resp \in {"200", "returned"}

\* The request sets the theme and nothing else.
IsThemeOnly(request) ==
    /\ request.selected_theme # NULL
    /\ request.prompt_text = NoText /\ request.target_element_id = << >>
    /\ request.style_overrides = NULL /\ ~request.is_direct_update
    /\ request.sections = << >>

\* C17: an edit with only the theme set.  When the theme differs from the
\* stored one, the theme alone is staged, the store is updated once, the
\* stored theme is the requested one, nothing else of the content changes and
\* last_modified is stamped.  When it is the stored one, nothing is staged,
\* the store is not called, the summary is the no-changes one and the row,
\* last_modified included, is as it was.
C17_ThemeOnly ==
    [][\A p \in PosterIds :
          (EditStep(p) /\ IsThemeOnly(last'.request))
          => IF db[p].selected_theme # last'.request.selected_theme
             THEN /\ last'.staged = {"selected_theme"}
                  /\ last'.store_calls = 1
                  /\ db'[p].selected_theme = last'.request.selected_theme
                  /\ Content(db'[p]) = [Content(db[p]) EXCEPT
                                           !.selected_theme = last'.request.selected_theme]
                  /\ last'.modified
                  /\ last'.llm_calls = 0
             ELSE /\ last'.staged = {}
                  /\ last'.store_calls = 0
                  /\ last'.summary = <<"no_update_action_performed">>
                  /\ ~last'.modified
                  /\ db' = db
                  /\ last'.llm_calls = 0]_vars

\* C17 witness: the theme of a poster was changed by a theme-only edit, and
\* the same edit applied again did nothing.
C17_Witness ==
    \E p \in rows :
        /\ last.op \in {"prompt", "service"} /\ last.poster_id = p
        /\ IsThemeOnly(last.request) /\ last.request.selected_theme = "dark"
        /\ db[p].selected_theme = "dark"
        /\ last.staged = {} /\ last.store_calls = 0
        /\ last.summary = <<"no_update_action_performed">>

\* The request is a direct update of the title, the abstract or the
\* conclusion by prompt_text, and sets nothing else.
IsDirectField(request) ==
    /\ request.is_direct_update
    /\ request.prompt_text # NoText
    /\ request.target_element_id \in PosterTargets
    /\ request.selected_theme = NULL /\ request.style_overrides = NULL
    /\ request.sections = << >>

\* C18: a direct update of poster_title, poster_abstract or poster_conclusion
\* stages that field and nothing else, calls the store exactly once and the
\* LLM never; when the store update does not raise, the stored field is
\* prompt_text as given (blanks and the empty string included) and the rest
\* of the content is as it was.
C18_DirectFieldUpdate ==
    [][\A p \in PosterIds :
          ( /\ p \in rows
            /\ last'.op \in {"prompt", "service"} /\ last'.poster_id = p
            /\ IsDirectField(last'.request) )
          => LET field == last'.request.target_element_id[2]
             IN  /\ last'.staged = {field}
                 /\ last'.store_calls = 1
                 /\ last'.llm_calls = 0
                 /\ last'.resp \in {"200", "returned"}
                    => /\ db'[p][field] = last'.request.prompt_text
                       /\ Content(db'[p]) = [Content(db[p]) EXCEPT
                                                ![field] = last'.request.prompt_text]]_vars

\* C18 witness: a direct update has set the abstract to a text that starts
\* with a blank, by one store call and without the LLM.
C18_Witness ==
    \E p \in rows :
        /\ last.op \in {"prompt", "service"} /\ last.poster_id = p
        /\ last.request = DirectField(<<"poster", "abstract">>)
        /\ last.staged = {"abstract"} /\ last.store_calls = 1 /\ last.llm_calls = 0
        /\ db[p].abstract = <<" ", "T">>
        /\ last.content_changed

\* The request asks the LLM for a new title, and sets nothing else.
IsLLMTitle(request) ==
    /\ ~request.is_direct_update
    /\ request.prompt_text # NoText
    /\ request.target_element_id = <<"poster", "title">>
    /\ request.selected_theme = NULL /\ request.style_overrides = NULL

\* Text t is text raw without its leading and trailing blanks.
IsTrimOf(t, raw) ==
    /\ t = << >> \/ (t[1] # " " /\ t[Len(t)] # " ")
    /\ \E i \in 1..(Len(raw) + 1) :
          /\ i + Len(t) - 1 <= Len(raw)
          /\ \A k \in 1..Len(t) : raw[i + k - 1] = t[k]
          /\ \A k \in 1..Len(raw) :
                (k < i \/ k > i + Len(t) - 1) => raw[k] = " "

\* The summary has the fragment.
HasFragment(summary, fragment) == \E i \in 1..Len(summary) : summary[i] = fragment

\* C19: a non-direct edit of poster_title calls the LLM exactly once, with a
\* prompt made of the stored title and the instruction; when the LLM answers
\* with a non-empty text, the title alone is staged, the store is called
\* exactly once, the summary has the "LLM response" fragment and, the store
\* update not raising, the stored title is the answer without its leading and
\* trailing whitespace, the rest of the content as it was.
C19_LLMTitleEdit ==
    [][\A p \in PosterIds :
          ( /\ p \in rows
            /\ last'.op \in {"prompt", "service"} /\ last'.poster_id = p
            /\ IsLLMTitle(last'.request) )
          => /\ last'.llm_calls = 1
             /\ last'.llm_context = <<db[p].title, last'.request.prompt_text>>
             /\ (last'.llm_reply.kind = "content" /\ last'.llm_reply.text # << >>)
                => /\ last'.staged = {"title"}
                   /\ last'.store_calls = 1
                   /\ HasFragment(last'.summary, "llm_response")
                   /\ last'.resp \in {"200", "returned"}
                      => /\ IsTrimOf(db'[p].title, last'.llm_reply.text)
                         /\ Content(db'[p]) = [Content(db[p]) EXCEPT
                                                  !.title = db'[p].title]]_vars

\* C19 witness: the LLM was asked once about a title set by an earlier direct
\* update, answered with padded text, and the title is the text without the
\* padding.
C19_Witness ==
    \E p \in rows :
        /\ last.op \in {"prompt", "service"} /\ last.poster_id = p
        /\ last.request = LLMTitle
        /\ last.llm_calls = 1 /\ last.llm_context = <<<<" ", "T">>, <<"I">>>>
        /\ last.llm_reply = LLMReply
        /\ last.store_calls = 1 /\ HasFragment(last.summary, "llm_response")
        /\ db[p].title = <<"L">>

\* The request is a direct update by prompt_text aimed at a field of a
\* section (section_<id>_title or section_<id>_content), without a section
\* list.
IsDirectSectionTarget(request) ==
    /\ request.is_direct_update
    /\ request.prompt_text # NoText
    /\ Len(request.target_element_id) = 3
    /\ request.target_element_id[1] = "section"
    /\ request.sections = << >>

\* C20: a direct update by prompt_text aimed at a section is refused within
\* the summary: the summary has the error fragment, no text field and no
\* section list is staged, the sections stay as they are and the LLM is not
\* called; when nothing else (theme, styles) was staged, the store is not
\* called and the poster and its files are unchanged.
C20_DirectSectionTargetRefused ==
    [][\A p \in PosterIds :
          ( /\ p \in rows
            /\ last'.op \in {"prompt", "service"} /\ last'.poster_id = p
            /\ IsDirectSectionTarget(last'.request) )
          => /\ HasFragment(last'.summary, "error_direct_needs_non_section_target")
             /\ ~HasFragment(last'.summary, "directly_updated")
             /\ last'.staged \cap {"title", "abstract", "conclusion", "sections"} = {}
             /\ last'.llm_calls = 0
             /\ db'[p].sections = db[p].sections
             /\ last'.staged = {}
                => /\ last'.store_calls = 0
                   /\ db' = db /\ uploads' = uploads]_vars

\* C20 witness: a direct update aimed at the title of a section that exists
\* was refused and nothing was staged.
C20_Witness ==
    \E p \in rows :
        /\ last.op \in {"prompt", "service"} /\ last.poster_id = p
        /\ last.request = DirectSectionTarget("s1", NULL)
        /\ FindSection(db[p].sections, "s1") # 0
        /\ last.summary = <<"error_direct_needs_non_section_target">>
        /\ last.staged = {} /\ last.store_calls = 0 /\ last.llm_calls = 0

\* The summary fragment and the payload of a request whose section list was
\* used; no LLM call and no text field staged.
SectionListWins(step) ==
    /\ "sections" \in step.staged
    /\ step.staged \cap {"title", "abstract", "conclusion"} = {}
    /\ step.llm_calls = 0
    /\ HasFragment(step.summary, "sections_updated_directly")

ReferencedFile(ref) ==
    IF Len(ref) > 0 /\ ref[1] = "uploaded_images" THEN Tail(ref) ELSE ref

\* The local image files the sections reference.
ReferencedFiles(sections) ==
    UNION {{ReferencedFile(sections[i].image_urls[k]) :
               k \in 1..Len(sections[i].image_urls)} : i \in 1..Len(sections)}

\* The request is a direct update with the empty section list.
IsEmptySectionList(request) ==
    request.is_direct_update /\ request.sections = << << >> >>

\* C22: a direct update with the empty section list leaves the poster with no
\* section, and none of the image files the old sections referenced is left
\* in the upload tree.
C22_EmptyListDeletesImages ==
    [][\A p \in PosterIds :
          (EditStep(p) /\ IsEmptySectionList(last'.request))
          => /\ db'[p].sections = << >>
             /\ ReferencedFiles(db[p].sections) \cap uploads' = {}]_vars

\* C23: style overrides given as a value in an edit request are staged as
\* given and stored; given as null, they clear the stored overrides (the
\* poster's style_overrides is null afterwards); absent, they leave the stored
\* overrides as they are.
C23_StyleOverridesStaged ==
    [][\A p \in PosterIds :
          EditStep(p)
          => IF last'.request.style_overrides = NULL
             THEN /\ "style_overrides" \notin last'.staged
                  /\ db'[p].style_overrides = db[p].style_overrides
             ELSE IF last'.request.style_overrides = JsonNull
             THEN db'[p].style_overrides = NULL
             ELSE /\ "style_overrides" \in last'.staged
                  /\ db'[p].style_overrides = last'.request.style_overrides]_vars

\* The step is an edit of poster p, which exists, in which the LLM was called
\* and raised or returned no content.
LLMFailedStep(p) ==
    /\ p \in rows
    /\ last'.op \in {"prompt", "service"} /\ last'.poster_id = p
    /\ last'.llm_calls = 1
    /\ last'.llm_reply.kind \in {"raise", "empty", "terminated"}

\* C24: when the LLM raises or returns no content during an edit, the edit
\* does not fail: the summary has the fragment that reports it (the service
\* error for an exception), nothing is staged from the prompt and the text
\* and the sections of the poster stay as they are, and the theme and the
\* style overrides the same request changed are staged and stored.
C24_LLMFailureFolded ==
    [][\A p \in PosterIds :
          LLMFailedStep(p)
          => /\ last'.resp \in {"200", "returned"}
             /\ IF last'.llm_reply.kind = "raise"
                THEN HasFragment(last'.summary, "llm_service_error")
                ELSE \/ HasFragment(last'.summary, "llm_no_content")
                     \/ HasFragment(last'.summary, "llm_call_issue")
             /\ last'.staged \cap {"title", "abstract", "conclusion", "sections"} = {}
             /\ db'[p].title = db[p].title /\ db'[p].abstract = db[p].abstract
             /\ db'[p].conclusion = db[p].conclusion
             /\ db'[p].sections = db[p].sections
             /\ ( /\ last'.request.selected_theme # NULL
                  /\ last'.request.selected_theme # db[p].selected_theme )
                => /\ "selected_theme" \in last'.staged
                   /\ HasFragment(last'.summary, "theme_updated")
                   /\ db'[p].selected_theme = last'.request.selected_theme
             /\ last'.request.style_overrides \notin {NULL, JsonNull}
                => /\ "style_overrides" \in last'.staged
                   /\ HasFragment(last'.summary, "style_overrides_applied")
                   /\ db'[p].style_overrides = last'.request.style_overrides]_vars

\* C24 witness: an edit of the title with a theme and style overrides, whose
\* LLM call raised: theme and styles are stored, the title is as it was and
\* the summary reports the three.
C24_Witness ==
    \E p \in rows :
        /\ last.op \in {"prompt", "service"} /\ last.poster_id = p
        /\ last.request = LLMTitleWith("dark", StyleA)
        /\ last.llm_calls = 1 /\ last.llm_reply = NoLLM
        /\ last.resp \in {"200", "returned"}
        /\ last.summary = <<"theme_updated", "style_overrides_applied", "llm_service_error">>
        /\ last.staged = {"selected_theme", "style_overrides"}
        /\ db[p].selected_theme = "dark" /\ db[p].style_overrides = StyleA
        /\ db[p].title = <<"U">>

\* The request asks the LLM for a new title or content of a section, and
\* carries no section list.
IsLLMSection(request) ==
    /\ ~request.is_direct_update
    /\ request.prompt_text # NoText
    /\ Len(request.target_element_id) = 3
    /\ request.target_element_id[1] = "section"
    /\ request.target_element_id[3] \in {"title", "content"}
    /\ request.sections = << >>

\* Section new is section old with the field named by part set to the text
\* raw without its leading and trailing blanks, and nothing else changed.
OnlyFieldChanged(old, new, part, raw) ==
    /\ new.image_urls = old.image_urls
    /\ IF part = "title"
       THEN /\ IsTrimOf(new.section_title, raw)
            /\ new.section_content = old.section_content
       ELSE /\ IsTrimOf(new.section_content, raw)
            /\ new.section_title = old.section_title

\* What C25 asks of an edit step of poster p with request.
C25_Outcome(p, request) ==
    LET sec_id == request.target_element_id[2]
        i == FindSection(db[p].sections, sec_id)
    IN  /\ last'.llm_calls = 1
        /\ (last'.llm_reply.kind = "content" /\ last'.llm_reply.text # << >>)
           => /\ last'.staged = {"sections"}
              /\ Len(db'[p].sections) = Len(db[p].sections)
              /\ \A k \in 1..Len(db[p].sections) :
                    IF k = i
                    THEN OnlyFieldChanged(db[p].sections[k], db'[p].sections[k],
                                          request.target_element_id[3],
                                          last'.llm_reply.text)
                    ELSE SectionCreate(db'[p].sections[k])
                            = SectionCreate(db[p].sections[k])

\* C25: a non-direct edit aimed at the title or the content of a section that
\* exists calls the LLM once and, when the LLM answers with a non-empty text,
\* stages the section list alone: the stored list is the old one, in the same
\* order, with only the targeted field of that section replaced by the
\* trimmed answer; titles, contents and image lists are otherwise unchanged.
C25_LLMSectionEdit ==
    [][\A p \in PosterIds :
          ( /\ EditStep(p) /\ IsLLMSection(last'.request)
            /\ FindSection(db[p].sections, last'.request.target_element_id[2]) # 0 )
          => C25_Outcome(p, last'.request)]_vars

\* The step is an upload for poster p that was accepted and stored.
UploadStep(p) ==
    p \in rows /\ last'.op = "upload" /\ last'.poster_id = p /\ last'.resp = "200"

\* Image list new is image list old with one reference appended.
OneAppended(old, new) ==
    Len(new) = Len(old) + 1 /\ SubSeq(new, 1, Len(old)) = old

\* C26: an upload for a section of a poster appends one image reference to
\* the image list of that section and leaves every other section as it was;
\* the poster read afterwards has the references it had before, in place.
C26_UploadAppends ==
    [][\A p \in PosterIds :
          UploadStep(p)
          => /\ Len(db'[p].sections) = Len(db[p].sections)
             /\ \E i \in 1..Len(db[p].sections) :
                   /\ OneAppended(db[p].sections[i].image_urls,
                                  db'[p].sections[i].image_urls)
                   /\ db'[p].sections[i].section_title = db[p].sections[i].section_title
                   /\ db'[p].sections[i].section_content = db[p].sections[i].section_content
                   /\ \A k \in 1..Len(db[p].sections) :
                         k # i => db'[p].sections[k] = db[p].sections[k]]_vars

\* The step rendered the deck of poster p.
RenderStep(p) ==
    /\ p \in rows /\ last'.poster_id = p
    /\ last'.op \in {"preview", "trigger"} /\ last'.deck_regenerated

\* The image references stored with the sections of poster p.
StoredRefs(p) ==
    UNION {{db[p].sections[i].image_urls[k] :
               k \in 1..Len(db[p].sections[i].image_urls)} :
              i \in 1..Len(db[p].sections)}

\* C27: a stored image reference with a ".." segment is never deleted by the
\* cleanup and never read by the deck renderer: the cleanup leaves every file
\* in place for it, and a step that renders the deck opens no file through it.
C27_TraversalNeverTouched ==
    [][\A p \in PosterIds :
          /\ \A ref \in StoredRefs(p) :
                HasDotDot(ref)
                => _delete_uploaded_image_file(uploads \cup OutsideFiles, ref)
                   = uploads \cup OutsideFiles
          /\ RenderStep(p)
             => \A web_ok \in BOOLEAN :
                   \A ref \in generate_pptx_reads(uploads, db[p].sections, web_ok) :
                      ~HasDotDot(ref)]_vars

\* The step deleted poster p.
DeleteStep(p) ==
    p \in rows /\ last'.op = "delete" /\ last'.poster_id = p

\* After the step the row of poster p, its sections and every file under its
\* upload directory are gone.
RowAndUploadsGone(p) ==
    /\ p \notin rows'
    /\ db'[p].sections = << >>
    /\ \A f \in uploads' : ~IsPrefix(<<p>>, f)

SectionRows(posters) ==
    UNION {{[poster_id |-> p, section_id |-> posters[p].sections[i].section_id] :
               i \in 1..Len(posters[p].sections)} : p \in DOMAIN posters}

\* The number of sections stored, over all posters.
RECURSIVE SectionCount(_, _)
SectionCount(posters, ps) ==
    IF ps = {} THEN 0
    ELSE LET p == CHOOSE x \in ps : TRUE
         IN  Len(posters[p].sections) + SectionCount(posters, ps \ {p})

\* Every stored section is a row of its own whose poster exists.
SectionsOwned(posters, existing) ==
    /\ \A r \in SectionRows(posters) : r.poster_id \in existing
    /\ Cardinality({r.section_id : r \in SectionRows(posters)})
           = SectionCount(posters, DOMAIN posters)

\* The step replaced the section list of poster p (an edit with a section
\* list, or an upload).
ReplaceStep(p) ==
    /\ p \in rows /\ last'.poster_id = p
    /\ \/ last'.op = "prompt" /\ last'.resp = "200" /\ "sections" \in last'.staged
       \/ last'.op = "upload" /\ last'.resp = "200"

\* C29: in every reachable state, after any sequence of create, section-list
\* replacement, upload and delete, every stored section belongs to exactly one
\* poster that exists: none survives the deletion of its poster, and none of
\* the old sections is stored after the section list of its poster was
\* replaced.
C29_SectionsOwned ==
    [][/\ SectionsOwned(db', rows')
       /\ \A p \in TwoPosterIds :
             /\ DeleteStep(p) => \A r \in SectionRows(db') : r.poster_id # p
             /\ ReplaceStep(p)
                => \A r \in SectionRows(db') :
                      \A i \in 1..Len(db[p].sections) :
                         r.section_id # db[p].sections[i].section_id]_vars

\* Both posters exist with a section each, and the last step replaced a
\* section list: one of the sections has an id handed out by a replacement of
\* a list that was not empty.
C29_Witness ==
    /\ rows = TwoPosterIds
    /\ \A p \in TwoPosterIds : Len(db[p].sections) = 1
    /\ last.op = "prompt" /\ "sections" \in last.staged
    /\ \E p \in TwoPosterIds : db[p].sections[1].section_id \notin SectionIds

\* C30: in every reachable state the title of a poster is non-empty: no edit
\* request, be it a direct update with any prompt_text or an LLM edit with any
\* reply of the LLM (whitespace only included), leaves a poster with an empty
\* title.
C30_TitleNonEmpty ==
    \A p \in rows : db[p].title # << >>

\* The step is an edit of poster p, which exists, that called the store.
StoreStep(p) ==
    /\ p \in rows
    /\ last'.op \in {"prompt", "service"} /\ last'.poster_id = p
    /\ last'.store_calls > 0

\* What the edit of the step staged for row, field by field.
StagedBy(row, step) ==
    IF step.op = "prompt"
    THEN Reconcile(row, step.request, step.llm_reply).payload
    ELSE ServiceReconcile(row, step.request, step.llm_reply).payload

\* Field f of row has the value staged for it (for the section list: title,
\* content and image references of every section, in order).
FieldApplied(row, f, value) ==
    IF f = "sections"
    THEN /\ Len(row.sections) = Len(value)
         /\ \A i \in 1..Len(value) : SectionCreate(row.sections[i]) = value[i]
    ELSE row[f] = value

\* C31: all fields staged by an edit request are applied in one store update;
\* if that update fails the operation fails as a whole and none of the staged
\* fields is visible in the stored poster.
C31_AllOrNothing ==
    [][\A p \in PosterIds :
          StoreStep(p)
          => /\ last'.store_calls = 1
             /\ IF last'.resp \in {"200", "returned"}
                THEN \A f \in last'.staged :
                        FieldApplied(db'[p], f, StagedBy(db[p], last')[f])
                ELSE /\ last'.resp \in {"500", Raised}
                     /\ db'[p] = db[p]]_vars

\* An edit that staged three fields failed in the store, on a poster an
\* earlier edit of three fields had changed.
C31_Witness ==
    /\ last.op \in {"prompt", "service"} /\ last.resp \in {"500", Raised}
    /\ Cardinality(last.staged) = 3
    /\ last.poster_id \in rows
    /\ db[last.poster_id].selected_theme # "default"

\* C32: recording the deck file path or the preview image path on a poster
\* (update_poster_filepaths) leaves last_modified unchanged: in a step that
\* renders the deck of poster p, the write that records the deck's path does
\* not advance last_modified, so it does not make the new deck stale.
C32_FilepathsKeepLastModified ==
    [][\A p \in PosterIds :
          RenderStep(p)
          => update_poster_filepaths(db[p], PptxPath, db[p].preview_image_path,
                                     Now(p) + 1).last_modified
             = db[p].last_modified]_vars

\* A background job of poster p is enqueued and has not written generating.
JobNotStarted(p) ==
    \E j \in BagToSet(jobs) : j.poster_id = p /\ ~j.wrote_generating

\* C33: in every reachable state a poster whose preview_status is pending has
\* a background job that was enqueued for it and has not yet written
\* generating.
C33_PendingHasQueuedJob ==
    \A p \in rows : db[p].preview_status = PENDING => JobNotStarted(p)

\* C34: in every reachable state, under every interleaving of two background
\* jobs and preview requests of one poster, preview_last_error is non-null
\* only when preview_status is failed: a poster that is pending, generating or
\* completed carries no stored error.
C34_ErrorOnlyWhenFailed ==
    \A p \in rows : db[p].preview_last_error # NULL => db[p].preview_status = FAILED

\* The step is a preview request for poster p, which exists and is failed,
\* whose deck rendering, if there was one, succeeded.
PreviewOfFailed(p) ==
    /\ p \in rows /\ db[p].preview_status = FAILED
    /\ last'.op = "preview" /\ last'.poster_id = p
    /\ ~last'.render_failed

\* C35: a preview request that observes preview_status = failed, with the
\* deck generation succeeding, always retries: it clears the stored error,
\* sets the status to pending and enqueues one background job; it never
\* answers with the stored error, so no preview request ever takes the failed
\* response branch.
C35_FailedIsRetried ==
    [][/\ \A p \in PosterIds :
             PreviewOfFailed(p)
             => /\ db'[p].preview_status = PENDING
                /\ db'[p].preview_last_error = NULL
                /\ jobs' = jobs (+) SetToBag({QueuedJob(p)})
                /\ last'.enqueued = 1 /\ last'.resp = "202"
       /\ (last'.op = "preview" => last'.resp # "500 failed previously")]_vars

\* A preview request found its poster failed, rendered the deck and retried,
\* while another job of the poster was still in flight.
C35_Witness ==
    /\ last.op = "preview" /\ last.pre_status = FAILED /\ last.enqueued = 1
    /\ last.poster_id \in rows
    /\ db[last.poster_id].preview_status = PENDING
    /\ BagCardinality(jobs) = 2

\* The step is a step of a background job.
JobStep == last'.op \in JobOps

\* C36: a content edit (title, abstract, conclusion, theme, style overrides
\* or section list) committed while a background job of the poster is running
\* is not lost or reverted by the job's status writes: a step of a job changes
\* only the preview status fields (and last_modified) and leaves the content,
\* the sections and the deck path as the latest edit left them.
C36_JobKeepsContent ==
    [][JobStep
       => \A p \in PosterIds :
             /\ Content(db'[p]) = Content(db[p])
             /\ db'[p].sections = db[p].sections
             /\ db'[p].pptx_file_path = db[p].pptx_file_path]_vars

\* A job has written its terminal status on a poster that carries an edited
\* title and a replaced section list, with another job of the poster still
\* in flight.
C36_Witness ==
    /\ last.op = "job_write" /\ last.job_wrote_generating /\ last.job_wrote_terminal
    /\ last.poster_id \in rows
    /\ db[last.poster_id].title = <<"T">>
    /\ db[last.poster_id].sections # << >>
    /\ BagCardinality(jobs) > 0

\* C37: no dangling image references: after any sequence of uploads, section
\* edits by the LLM and section-list replacements, every local (non-URL)
\* image reference stored on a section of a poster names a file that exists
\* in the upload tree.
C37_NoDanglingReferences ==
    \A p \in rows :
       \A ref \in StoredRefs(p) :
          (ref # << >> /\ ~IsUrl(ref)) => ReferencedFile(ref) \in uploads

\* The content fields of a poster an edit can stage.
ContentFields == {"title", "abstract", "conclusion"}

\* C38: the summary of an edit is faithful to what was staged: whenever it
\* has the fragment saying that the content for the target was directly
\* updated, exactly one content field, the one the target names, was staged
\* and stored with the text given, for every target_element_id, those that
\* name neither poster_title, poster_abstract, poster_conclusion nor a
\* section included.
C38_SummaryFaithful ==
    [][\A p \in PosterIds :
          (EditStep(p) /\ HasFragment(last'.summary, "directly_updated"))
          => \E f \in ContentFields :
                /\ last'.staged \cap ContentFields = {f}
                /\ last'.request.target_element_id = <<"poster", f>>
                /\ db'[p][f] = last'.request.prompt_text]_vars

\* The step changed the preview_status of poster p, which exists before and
\* after it.
StatusChanged(p) ==
    p \in rows /\ p \in rows' /\ db'[p].preview_status # db[p].preview_status

\* The step is a request that failed to render the deck.
RenderFailure == last'.op = "preview" /\ last'.render_failed

\* C39 as stated: preview_status changes only along the transitions of the
\* pipeline: any state to pending by a request, pending to generating at a
\* job's start, generating to completed or failed at a job's end, any state to
\* failed when the deck rendering fails; it never moves from completed or
\* failed directly to generating, nor from pending directly to completed.
C39_AsStated ==
    [][\A p \in PosterIds :
          StatusChanged(p)
          => LET from == db[p].preview_status
                 to == db'[p].preview_status
             IN  \/ to = PENDING /\ last'.op \in {"preview", "trigger", "upload"}
                 \/ from = PENDING /\ to = GENERATING /\ last'.op = "job_start"
                 \/ /\ from = GENERATING /\ to \in {COMPLETED, FAILED}
                    /\ last'.op \in {"job_write", "job_except"}
                 \/ to = FAILED /\ RenderFailure]_vars

\* C39, amended: preview_status changes only by the writes of the pipeline,
\* each from whatever state the poster is in: a request writes pending, a
\* job's start writes generating, a job's end writes completed or failed, and
\* a request whose deck rendering fails writes failed.
C39_StatusWrittenByPipeline ==
    [][\A p \in PosterIds :
          StatusChanged(p)
          => LET to == db'[p].preview_status
             IN  \/ to = PENDING /\ last'.op \in {"preview", "trigger", "upload"}
                 \/ to = GENERATING /\ last'.op = "job_start"
                 \/ to = COMPLETED /\ last'.op = "job_write"
                 \/ to = FAILED /\ last'.op \in {"job_write", "job_except"}
                 \/ to = FAILED /\ RenderFailure]_vars

\* A job has started on a poster that was completed: another job of the
\* poster had ended before it.
C39_Witness ==
    /\ last.op = "job_start" /\ last.pre_status = COMPLETED
    /\ last.poster_id \in rows
    /\ db[last.poster_id].preview_status = GENERATING

====
